---- MODULE Spec2Model ----
(***************************************************************************)
(* Coordination engine of evm-hybrid-contracts.                            *)
(*                                                                         *)
(* Three coordinator contracts live in the repository:                     *)
(*   - the role-based FIFO coordinator with callbacks                      *)
(*       (contracts/BasicHybridCoordinator.sol, AccessControl version),    *)
(*   - the whitelist-based partitioned coordinator                         *)
(*       (minimum-pending-nonce indices per bytecode / state location),    *)
(*   - the whitelist-based FIFO coordinator (no callbacks),                *)
(* together with the FIFOBytes32 queue library they use.                   *)
(*                                                                         *)
(* Every action is one EVM transaction: it either commits all its writes   *)
(* or reverts and leaves the contract storage untouched.  The variable     *)
(* last records the most recent call and how it ended, so a reverted call  *)
(* is an observable step.                                                  *)
(***************************************************************************)
EXTENDS Integers, Sequences, FiniteSets, TLC

\* ------------------------------------------------------------------ bounds
\* Admissions per run.
MaxNonce == 3
\* Highest tail index the queue harness is driven to.
MaxTail == 4
\* Responses a consumer is sent per run.
MaxResponses == 3
\* Pools a PostgresClientManager creates over its life.
MaxPools == 3

\* --------------------------------------------------------------- addresses
Admin     == "admin"
ConsumerA == "consumerA"
ConsumerB == "consumerB"
Processor == "processor"

Addresses == {Admin, ConsumerA, ConsumerB, Processor}

\* Accounts of the whitelist-based coordinators.
Owner == "owner"
User  == "user"
ZeroAddress == "0x0"

\* Contracts that implement IResponseOffchainCallConsumer (EIP-165).
ConsumerContracts == {ConsumerA, ConsumerB}
\* Accounts that have code; the others are externally owned.
Contracts == ConsumerContracts

\* ------------------------------------------------------------------ inputs
Calls      == {"0x01"}
FifoBytecodeLocations == {"c1"}
FifoStateLocations    == {"s1"}
Results    == {<<"n1", "r1">>}
BytecodeLocations == {"c1", "c2"}
StateLocations    == {"s1", "s2"}

CONSUMER_ROLE  == "CONSUMER_ROLE"
PROCESSOR_ROLE == "PROCESSOR_ROLE"
DEFAULT_ADMIN_ROLE == "DEFAULT_ADMIN_ROLE"

\* The grants the admin makes: the consumer contracts and, as in the tests, an
\* externally owned account (the processor's) get CONSUMER_ROLE.
Grantable == {<<CONSUMER_ROLE, ConsumerA>>, <<CONSUMER_ROLE, ConsumerB>>,
              <<CONSUMER_ROLE, Processor>>, <<PROCESSOR_ROLE, Processor>>}

VARIABLES
    blockNumber,   \* block.number of the transaction being executed
    _nonce,        \* uint256 _nonce
    requests,      \* mapping(bytes32 => Request), absent keys are all-zero
    globalQueue,   \* FIFOBytes32.Queue {data, head, tail}
    _roles,        \* AccessControl: role -> set of accounts
    _whitelist,    \* mapping(address => bool), as the set of addresses mapped to true
    _minPendingNonceBytecode,  \* mapping(string => uint256)
    _minPendingNonceState,     \* mapping(string => uint256)
    _bytecodeNonceToRequest,   \* mapping(string => mapping(uint256 => bytes32))
    _stateNonceToRequest,      \* mapping(string => mapping(uint256 => bytes32))
    events,        \* log of emitted events, oldest first
    delivered,     \* log of onOffchainCallResponse invocations that committed
    harnessQ,      \* FIFOBytes32Harness: its FIFOBytes32.Queue q
    fifoModel,     \* reference FIFO: the values enqueued and not yet dequeued
    exampleConsumer,  \* an ExampleConsumer: currentStateLocation, responses, event log
    pgManager,     \* a PostgresClientManager, the pools it created and its pending calls
    last           \* the most recent call and its outcome

\* The contracts deployed beside the coordinators: the queue harness (with the
\* reference FIFO it is compared to), a consumer, and the server's database
\* connection manager.
otherContracts == <<harnessQ, fifoModel, exampleConsumer, pgManager>>

\* Contract storage and logs: what a reverted transaction leaves as it was.
storage == <<blockNumber, otherContracts, _nonce, requests, globalQueue, _roles, _whitelist,
             _minPendingNonceBytecode, _minPendingNonceState,
             _bytecodeNonceToRequest, _stateNonceToRequest, events, delivered>>
\* What the FIFO coordinators never touch.
indexVars == <<_minPendingNonceBytecode, _minPendingNonceState,
               _bytecodeNonceToRequest, _stateNonceToRequest>>

vars == <<storage, last>>

\* ---------------------------------------------------------------- helpers
\* bytes32(0)
ZeroId == <<0, "0x0", 0>>
\* An id no admission ever produced (the test's fakeRequestId).
FakeId == <<0, "fake", 999>>

\* Solidity mapping read: a key never written reads as the zero value.
Get(m, k, zero) == IF k \in DOMAIN m THEN m[k] ELSE zero
\* Solidity mapping write.
Put(m, k, v) == [x \in (DOMAIN m) \cup {k} |-> IF x = k THEN v ELSE m[x]]

\* The id hashed without the nonce.
RequestIdWithoutNonce(b, sender, n) == <<b, sender, 0>>
\* keccak256(abi.encodePacked(block.number, msg.sender, _nonce)): collision
\* resistant, so modelled as the injective pairing of its three inputs.
RequestIdOf(b, sender, n) == <<b, sender, n>>

ZeroRequest == [state |-> "None", blockNumber |-> 0, requester |-> "0x0", nonce |-> 0,
                call |-> "", bytecodeLocation |-> "", currentStateLocation |-> "",
                newStateLocation |-> "", returnData |-> ""]

getRequest(id) == Get(requests, id, ZeroRequest)
getRequestState(id) == getRequest(id).state
isPending(id) == getRequestState(id) = "Sent"

\* ------------------------------------------------------ FIFOBytes32 library
EmptyQueue == [data |-> <<>>, head |-> 0, tail |-> 0]

\* An emptiness test that never reports an empty queue.
isEmptyNever(q) == FALSE
isEmpty(q) == q.head = q.tail
length(q) == q.tail - q.head
\* indices: (head, tail)
indices(q) == <<q.head, q.tail>>
\* enqueue that stores the value and leaves tail where it was.
enqueueWithoutAdvance(q, value) == [q EXCEPT !.data = Put(q.data, q.tail, value)]
\* enqueue: q.data[q.tail] = value; q.tail++
enqueue(q, value) == [q EXCEPT !.data = Put(q.data, q.tail, value), !.tail = q.tail + 1]
\* The value peek/dequeue yield when they revert with QueueEmpty().
QueueEmpty == <<0, "QueueEmpty()", 0>>
\* peek reading the newest slot instead of the oldest.
peekNewest(q) == IF q.head = q.tail THEN QueueEmpty ELSE Get(q.data, q.tail - 1, ZeroId)
\* peek: if (h == q.tail) revert QueueEmpty(); return q.data[h]
peek(q) == IF q.head = q.tail THEN QueueEmpty ELSE Get(q.data, q.head, ZeroId)
\* dequeue that leaves the head where it was.
dequeueKeepingHead(q) == q
\* dequeue that sets both indices to 0 when it removes the last value.
dequeueAutoReset(q) ==
    IF q.head = q.tail THEN q
    ELSE IF q.head + 1 = q.tail THEN [q EXCEPT !.head = 0, !.tail = 0]
    ELSE [q EXCEPT !.head = q.head + 1]
\* dequeue: head = h + 1, the slot is not deleted (the caller has peeked, so the
\* queue is not empty here)
dequeue(q) == IF q.head = q.tail THEN q ELSE [q EXCEPT !.head = q.head + 1]
\* The emptiness check left out of dequeue and peek.
QueueCheckSkipped(q) == "ok"
\* if (h == q.tail) revert QueueEmpty(), the first statement of dequeue and peek.
QueueCheck(q) == IF q.head = q.tail THEN "QueueEmpty()" ELSE "ok"
\* A reset that leaves the indices where they are.
resetNever(q) == q
\* A reset that does not look at the queue first.
resetAlways(q) == [q EXCEPT !.head = 0, !.tail = 0]
\* resetIfEmpty: head and tail go to 0 when the queue is empty; no slot is deleted.
resetIfEmpty(q) == IF q.head = q.tail THEN [q EXCEPT !.head = 0, !.tail = 0] ELSE q

\* ------------------------------------------------- access control (RBAC)
\* A role check satisfied by holding any role at all.
hasAnyRole(role, account) == \E r \in DOMAIN _roles : account \in _roles[r]
hasRole(role, account) == account \in _roles[role]

\* IERC165(msg.sender).supportsInterface(IResponseOffchainCallConsumer): true
\* for the consumer contracts; the call itself fails for an account without code.
supportsInterface(account) == account \in ConsumerContracts

\* How the EIP-165 query of sendOffchainCall on msg.sender ends: the high-level
\* call to an account without code reverts without reason, a contract that
\* answers false gives ConsumerDoesNotSupportInterface.
\* The admission without the EIP-165 query.
InterfaceCheckSkipped(account) == "ok"
InterfaceCheck(account) ==
    IF account \notin Contracts THEN "reverted without reason"
    ELSE IF ~supportsInterface(account) THEN "ConsumerDoesNotSupportInterface"
    ELSE "ok"

\* What the requester's onOffchainCallResponse can do when the coordinator
\* calls it: ExampleConsumer (ConsumerA) accepts its coordinator's call; the
\* virtual receiveResponse of another consumer (ConsumerB) may also revert.
HandlerOutcomes(consumer) == IF consumer = ConsumerB THEN {"ok", "revert"} ELSE {"ok"}

\* ----------------------------------------------------- consumer contract
\* The coordinator a consumer is deployed for, and another contract.
Coordinator == "coordinator"
\* ExampleConsumer right after its constructor: coordinatorAddress and
\* currentStateLocation set, no response stored, nothing emitted.
ConsumerDeployed ==
    [coordinatorAddress |-> Coordinator, currentStateLocation |-> "s1",
     responses |-> <<>>, log |-> <<>>]

\* this.pool = null
NoPool == 0
\* The connect() calls that can be in flight at once.
ConnectCalls == {"connect1", "connect2"}
\* Environments passed to connect().
Envs == {"defaults", "invalid PGPORT"}
\* A PostgresClientManager after `new`: no pool; of the pools it will create,
\* none validated or ended; no call made.
ManagerCreated ==
    [pool |-> NoPool, created |-> 0, validated |-> {}, ended |-> {},
     calls |-> [c \in ConnectCalls |-> [pc |-> "idle", pool |-> NoPool]]]

\* Callers of the consumer's handler: its coordinator and two other accounts.
HandlerCallers == {Coordinator, Processor, Admin}
\* Results a consumer is sent.
ConsumerResults == {<<"n1", "r1">>, <<"n2", "r2">>}

\* The handler without its check of msg.sender.
CallerCheckSkipped(sender) == "ok"
\* if (msg.sender != coordinatorAddress) revert UnauthorizedCaller(msg.sender)
CallerCheck(sender) ==
    IF sender # exampleConsumer.coordinatorAddress THEN "UnauthorizedCaller" ELSE "ok"

\* A rejected call that has already taken the front of the queue.
RevertAfterDequeue(op, caller, id, err) ==
    /\ last' = [op |-> op, caller |-> caller, id |-> id, err |-> err]
    /\ globalQueue' = dequeue(globalQueue)
    /\ UNCHANGED <<blockNumber, otherContracts, _nonce, requests, _roles, _whitelist, indexVars,
                   events, delivered>>
\* A rejected call that has already consumed a nonce.
RevertAfterNonceIncrement(op, caller, id, err) ==
    /\ last' = [op |-> op, caller |-> caller, id |-> id, err |-> err]
    /\ _nonce' = _nonce + 1
    /\ UNCHANGED <<blockNumber, otherContracts, requests, globalQueue, _roles, _whitelist, indexVars,
                   events, delivered>>
\* A rejected reply whose OffchainCallReplied event stays in the log.
RevertKeepingLog(op, caller, id, err) ==
    /\ last' = [op |-> op, caller |-> caller, id |-> id, err |-> err]
    /\ events' = IF op = "reply"
                 THEN Append(events, [name |-> "OffchainCallReplied", requestId |-> id,
                                      block |-> blockNumber, newStateLocation |-> ""])
                 ELSE events
    /\ UNCHANGED <<blockNumber, otherContracts, _nonce, requests, globalQueue, _roles, _whitelist,
                   indexVars, delivered>>
\* A reverted transaction: storage, logs and deliveries are as before.
Revert(op, caller, id, err) ==
    /\ last' = [op |-> op, caller |-> caller, id |-> id, err |-> err]
    /\ UNCHANGED storage

\* ------------------------------------------------ FIFO coordinator (RBAC)
\* The id derived from the sender and the block alone.
NewRequestIdPerBlock(sender) == RequestIdOf(blockNumber, sender, 0)
\* The id sendOffchainCall derives for msg.sender in the current block.
NewRequestId(sender) == RequestIdOf(blockNumber, sender, _nonce + 1)

sendOffchainCall(sender, call, bytecodeLocation, currentStateLocation) ==
    IF ~hasRole(CONSUMER_ROLE, sender)
    THEN Revert("send", sender, ZeroId, "AccessControlUnauthorizedAccount")
    ELSE IF InterfaceCheck(sender) # "ok"
    THEN Revert("send", sender, ZeroId, InterfaceCheck(sender))
    ELSE LET requestId == NewRequestId(sender) IN
        /\ _nonce < MaxNonce
        /\ _nonce' = _nonce + 1
        /\ requests' = Put(requests, requestId,
                [state |-> "Sent", blockNumber |-> blockNumber, requester |-> sender,
                 nonce |-> _nonce + 1, call |-> call,
                 bytecodeLocation |-> bytecodeLocation,
                 currentStateLocation |-> currentStateLocation,
                 newStateLocation |-> "", returnData |-> ""])
        /\ globalQueue' = enqueue(globalQueue, requestId)
        /\ events' = Append(events,
                [name |-> "OffchainCallSent", requestId |-> requestId, requester |-> sender,
                 block |-> blockNumber, call |-> call,
                 bytecodeLocation |-> bytecodeLocation,
                 currentStateLocation |-> currentStateLocation])
        /\ last' = [op |-> "send", caller |-> sender, id |-> requestId, err |-> "ok"]
        /\ UNCHANGED <<blockNumber, otherContracts, _roles, _whitelist, indexVars, delivered>>

\* replyOffchainCall without the require on the request state.
replyChecksNoStateCheck(sender, requestId) ==
    IF ~hasRole(PROCESSOR_ROLE, sender) THEN "AccessControlUnauthorizedAccount"
    ELSE IF peek(globalQueue) = QueueEmpty THEN "QueueEmpty"
    ELSE IF peek(globalQueue) # requestId THEN "errorFulfillingOutOfOrder"
    ELSE "ok"
\* replyOffchainCall without the comparison against the front of the queue.
replyChecksNoOrderCheck(sender, requestId) ==
    IF ~hasRole(PROCESSOR_ROLE, sender) THEN "AccessControlUnauthorizedAccount"
    ELSE IF getRequestState(requestId) # "Sent" THEN "Invalid request state"
    ELSE IF peek(globalQueue) = QueueEmpty THEN "QueueEmpty"
    ELSE "ok"
\* How replyOffchainCall(requestId, ...) called by sender ends in the current
\* state, up to the callback: the first failing check, or "ok".
replyChecks(sender, requestId) ==
    IF ~hasRole(PROCESSOR_ROLE, sender) THEN "AccessControlUnauthorizedAccount"
    ELSE IF getRequestState(requestId) # "Sent" THEN "Invalid request state"
    ELSE IF peek(globalQueue) = QueueEmpty THEN "QueueEmpty"
    ELSE IF peek(globalQueue) # requestId THEN "errorFulfillingOutOfOrder"
    ELSE "ok"

\* The callback going to the other consumer contract.
CallbackTargetOther(requestId) ==
    IF requests[requestId].requester = ConsumerA THEN ConsumerB ELSE ConsumerA
\* The address whose onOffchainCallResponse is called: currentRequest.requester.
CallbackTarget(requestId) == requests[requestId].requester

\* The completion that also clears the stored call payload.
AtCallbackClearingCall(requestId, newStateLocation, returnData) ==
    [requests |-> [requests EXCEPT ![requestId].state = "Completed",
                                   ![requestId].call = "",
                                   ![requestId].newStateLocation = newStateLocation,
                                   ![requestId].returnData = returnData],
     globalQueue |-> dequeue(globalQueue)]
\* The requests mapping and the queue at the external call of line 175: the
\* dequeue and the three writes of lines 166-169 are already made.
AtCallback(requestId, newStateLocation, returnData) ==
    [requests |-> [requests EXCEPT ![requestId].state = "Completed",
                                   ![requestId].newStateLocation = newStateLocation,
                                   ![requestId].returnData = returnData],
     globalQueue |-> dequeue(globalQueue)]

\* The handler reading the coordinator as it was before the transaction.
HandlerViewBeforeWrites(requestId, newStateLocation, returnData) ==
    [state |-> requests[requestId].state,
     newStateLocation |-> requests[requestId].newStateLocation,
     returnData |-> requests[requestId].returnData,
     nextRequest |-> IF isEmpty(globalQueue) THEN ZeroId ELSE peek(globalQueue)]
\* What getRequest(requestId) and nextRequest() return when the requester's
\* handler calls them from inside onOffchainCallResponse.
HandlerView(requestId, newStateLocation, returnData) ==
    LET s == AtCallback(requestId, newStateLocation, returnData) IN
    [state |-> s.requests[requestId].state,
     newStateLocation |-> s.requests[requestId].newStateLocation,
     returnData |-> s.requests[requestId].returnData,
     nextRequest |-> IF isEmpty(s.globalQueue) THEN ZeroId ELSE peek(s.globalQueue)]

\* replyOffchainCall that keeps its writes when the handler fails.
replyOffchainCallIgnoringHandler(sender, requestId, newStateLocation, returnData) ==
    IF replyChecks(sender, requestId) # "ok"
    THEN Revert("reply", sender, requestId, replyChecks(sender, requestId))
    ELSE \E outcome \in HandlerOutcomes(CallbackTarget(requestId)) :
        /\ globalQueue' = AtCallback(requestId, newStateLocation, returnData).globalQueue
        /\ requests' = AtCallback(requestId, newStateLocation, returnData).requests
        /\ events' = Append(events,
                [name |-> "OffchainCallReplied", requestId |-> requestId,
                 block |-> blockNumber, newStateLocation |-> newStateLocation])
        /\ delivered' = IF outcome # "ok" THEN delivered ELSE Append(delivered,
                [to |-> CallbackTarget(requestId), requestId |-> requestId,
                 newStateLocation |-> newStateLocation, returnData |-> returnData,
                 seen |-> HandlerView(requestId, newStateLocation, returnData)])
        /\ last' = [op |-> "reply", caller |-> sender, id |-> requestId,
                    err |-> IF outcome # "ok" THEN "handler reverted" ELSE "ok"]
        /\ UNCHANGED <<blockNumber, otherContracts, _nonce, _roles, _whitelist, indexVars>>
replyOffchainCall(sender, requestId, newStateLocation, returnData) ==
    IF replyChecks(sender, requestId) # "ok"
    THEN Revert("reply", sender, requestId, replyChecks(sender, requestId))
    ELSE \E outcome \in HandlerOutcomes(CallbackTarget(requestId)) :
        IF outcome # "ok"
        THEN Revert("reply", sender, requestId, "handler reverted")
        ELSE
        /\ globalQueue' = AtCallback(requestId, newStateLocation, returnData).globalQueue
        /\ requests' = AtCallback(requestId, newStateLocation, returnData).requests
        /\ events' = Append(events,
                [name |-> "OffchainCallReplied", requestId |-> requestId,
                 block |-> blockNumber, newStateLocation |-> newStateLocation])
        /\ delivered' = Append(delivered,
                [to |-> CallbackTarget(requestId), requestId |-> requestId,
                 newStateLocation |-> newStateLocation, returnData |-> returnData,
                 seen |-> HandlerView(requestId, newStateLocation, returnData)])
        /\ last' = [op |-> "reply", caller |-> sender, id |-> requestId, err |-> "ok"]
        /\ UNCHANGED <<blockNumber, otherContracts, _nonce, _roles, _whitelist, indexVars>>

\* nextRequest(): bytes32(0) when the queue is empty, else its front.
nextRequest == IF isEmpty(globalQueue) THEN ZeroId ELSE peek(globalQueue)

\* grantRole / revokeRole of AccessControl, restricted to DEFAULT_ADMIN_ROLE.
grantRole(sender, role, account) ==
    IF ~hasRole(DEFAULT_ADMIN_ROLE, sender)
    THEN Revert("grantRole", sender, ZeroId, "AccessControlUnauthorizedAccount")
    ELSE /\ _roles' = [_roles EXCEPT ![role] = @ \cup {account}]
         /\ last' = [op |-> "grantRole", caller |-> sender, id |-> ZeroId, err |-> "ok"]
         /\ UNCHANGED <<blockNumber, otherContracts, _nonce, requests, globalQueue, _whitelist, indexVars, events, delivered>>

\* A revocation that also cancels the pending requests of the account.
revokeRoleAndCancel(sender, role, account) ==
    IF ~hasRole(DEFAULT_ADMIN_ROLE, sender)
    THEN Revert("revokeRole", sender, ZeroId, "AccessControlUnauthorizedAccount")
    ELSE /\ _roles' = [_roles EXCEPT ![role] = @ \ {account}]
         /\ requests' = [id \in DOMAIN requests |->
                            IF requests[id].requester = account /\ requests[id].state = "Sent"
                            THEN [requests[id] EXCEPT !.state = "None"] ELSE requests[id]]
         /\ last' = [op |-> "revokeRole", caller |-> sender, id |-> ZeroId, err |-> "ok"]
         /\ UNCHANGED <<blockNumber, otherContracts, _nonce, globalQueue, _whitelist, indexVars, events, delivered>>
revokeRole(sender, role, account) ==
    IF ~hasRole(DEFAULT_ADMIN_ROLE, sender)
    THEN Revert("revokeRole", sender, ZeroId, "AccessControlUnauthorizedAccount")
    ELSE /\ _roles' = [_roles EXCEPT ![role] = @ \ {account}]
         /\ last' = [op |-> "revokeRole", caller |-> sender, id |-> ZeroId, err |-> "ok"]
         /\ UNCHANGED <<blockNumber, otherContracts, _nonce, requests, globalQueue, _whitelist, indexVars, events, delivered>>

\* renounceRole of AccessControl: an account gives up its own role; the
\* confirmation must be the caller.
renounceRole(sender, role, callerConfirmation) ==
    IF callerConfirmation # sender
    THEN Revert("renounceRole", sender, ZeroId, "AccessControlBadConfirmation")
    ELSE /\ _roles' = [_roles EXCEPT ![role] = @ \ {callerConfirmation}]
         /\ last' = [op |-> "renounceRole", caller |-> sender, id |-> ZeroId, err |-> "ok"]
         /\ UNCHANGED <<blockNumber, otherContracts, _nonce, requests, globalQueue, _whitelist, indexVars, events, delivered>>

\* Ids a caller may pass to replyOffchainCall: every admitted id, an id never
\* admitted, and bytes32(0).
ReplyIds == (DOMAIN requests) \cup {FakeId}

\* Storage common to the three coordinators right after deployment.
InitCommon ==
    /\ blockNumber = 1
    /\ _nonce = 0
    /\ requests = <<>>
    /\ globalQueue = EmptyQueue
    /\ _minPendingNonceBytecode = <<>>
    /\ _minPendingNonceState = <<>>
    /\ _bytecodeNonceToRequest = <<>>
    /\ _stateNonceToRequest = <<>>
    /\ events = <<>>
    /\ delivered = <<>>
    /\ harnessQ = EmptyQueue
    /\ fifoModel = <<>>
    /\ exampleConsumer = ConsumerDeployed
    /\ pgManager = ManagerCreated

\* State right after the constructor: only DEFAULT_ADMIN_ROLE is granted.
Init ==
    /\ InitCommon
    /\ _whitelist = {}
    /\ _roles = [r \in {DEFAULT_ADMIN_ROLE, CONSUMER_ROLE, PROCESSOR_ROLE} |->
                    IF r = DEFAULT_ADMIN_ROLE THEN {Admin} ELSE {}]
    /\ last = [op |-> "constructor", caller |-> Admin, id |-> ZeroId, err |-> "ok"]

Send == \E sender \in {ConsumerA, ConsumerB, Processor}, call \in Calls, b \in FifoBytecodeLocations,
           s \in FifoStateLocations : sendOffchainCall(sender, call, b, s)
Reply == \E sender \in {Processor}, id \in ReplyIds, res \in Results :
            replyOffchainCall(sender, id, res[1], res[2])
Grant == \E sender \in {Admin, Processor}, g \in Grantable : grantRole(sender, g[1], g[2])
Revoke == \E sender \in {Admin, Processor}, g \in Grantable : revokeRole(sender, g[1], g[2])
Renounce == \E g \in {<<PROCESSOR_ROLE, Processor>>, <<PROCESSOR_ROLE, Admin>>} :
               renounceRole(Processor, g[1], g[2])

Next == Send \/ Reply \/ Grant \/ Revoke \/ Renounce

Spec == Init /\ [][Next]_vars

\* ------------------------------------------- re-entrant callback handlers
\* The coordinator storage one transaction works on, nested calls included.
TxState ==
    [_nonce |-> _nonce, requests |-> requests, globalQueue |-> globalQueue,
     events |-> events, delivered |-> delivered]

\* sendOffchainCall made by sender on the storage s of the running
\* transaction: the storage afterwards, the outcome and the new id.
sendOffchainCallIn(s, sender, call, bytecodeLocation, currentStateLocation) ==
    LET requestId == RequestIdOf(blockNumber, sender, s._nonce + 1) IN
    IF ~hasRole(CONSUMER_ROLE, sender)
    THEN [s |-> s, err |-> "AccessControlUnauthorizedAccount", id |-> ZeroId]
    ELSE IF InterfaceCheck(sender) # "ok"
    THEN [s |-> s, err |-> InterfaceCheck(sender), id |-> ZeroId]
    ELSE [s |-> [s EXCEPT
                   !._nonce = s._nonce + 1,
                   !.requests = Put(s.requests, requestId,
                       [state |-> "Sent", blockNumber |-> blockNumber, requester |-> sender,
                        nonce |-> s._nonce + 1, call |-> call,
                        bytecodeLocation |-> bytecodeLocation,
                        currentStateLocation |-> currentStateLocation,
                        newStateLocation |-> "", returnData |-> ""]),
                   !.globalQueue = enqueue(s.globalQueue, requestId),
                   !.events = Append(s.events,
                       [name |-> "OffchainCallSent", requestId |-> requestId,
                        requester |-> sender, block |-> blockNumber, call |-> call,
                        bytecodeLocation |-> bytecodeLocation,
                        currentStateLocation |-> currentStateLocation])],
          err |-> "ok", id |-> requestId]

\* The checks of replyOffchainCall on the storage s.
replyChecksIn(s, sender, requestId) ==
    IF ~hasRole(PROCESSOR_ROLE, sender) THEN "AccessControlUnauthorizedAccount"
    ELSE IF Get(s.requests, requestId, ZeroRequest).state # "Sent" THEN "Invalid request state"
    ELSE IF peek(s.globalQueue) = QueueEmpty THEN "QueueEmpty"
    ELSE IF peek(s.globalQueue) # requestId THEN "errorFulfillingOutOfOrder"
    ELSE "ok"

\* The external call made before the dequeue and the writes.
StateBeforeWrites(s, requestId, newStateLocation, returnData) == s
\* The storage at the external call of line 175: dequeue, the three writes
\* and the OffchainCallReplied event are done.
StateAtCallback(s, requestId, newStateLocation, returnData) ==
    [s EXCEPT
       !.globalQueue = dequeue(s.globalQueue),
       !.requests = [s.requests EXCEPT ![requestId].state = "Completed",
                                       ![requestId].newStateLocation = newStateLocation,
                                       ![requestId].returnData = returnData],
       !.events = Append(s.events,
           [name |-> "OffchainCallReplied", requestId |-> requestId,
            block |-> blockNumber, newStateLocation |-> newStateLocation])]

\* The handler has returned: the invocation is part of the committed history.
Delivered(s, at, requestId, newStateLocation, returnData) ==
    [s EXCEPT !.delivered = Append(s.delivered,
        [to |-> Get(at.requests, requestId, ZeroRequest).requester, requestId |-> requestId,
         newStateLocation |-> newStateLocation, returnData |-> returnData,
         seen |-> [state |-> Get(at.requests, requestId, ZeroRequest).state,
                   newStateLocation |-> Get(at.requests, requestId, ZeroRequest).newStateLocation,
                   returnData |-> Get(at.requests, requestId, ZeroRequest).returnData,
                   nextRequest |-> IF isEmpty(at.globalQueue) THEN ZeroId
                                   ELSE peek(at.globalQueue)]])]

\* replyOffchainCall made from inside a handler, on the storage s; the
\* handler of the request it completes returns without calling back.
replyOffchainCallIn(s, sender, requestId, newStateLocation, returnData) ==
    IF replyChecksIn(s, sender, requestId) # "ok"
    THEN [s |-> s, err |-> replyChecksIn(s, sender, requestId)]
    ELSE LET at == StateAtCallback(s, requestId, newStateLocation, returnData) IN
         [s |-> Delivered(at, at, requestId, newStateLocation, returnData), err |-> "ok"]

\* What a requester's receiveResponse does with the coordinator: nothing;
\* sendOffchainRequest; replyOffchainCall on the request being delivered,
\* bare or inside try/catch; replyOffchainCall on the request now at the front.
HandlerScripts == {"none", "send", "replySelf", "replySelfCaught", "replyNext"}

\* The handler of consumer runs script on the storage `at` during the
\* delivery of requestId: the storage when it returns, how it ended, and the
\* outcome and id of the nested call it made.
RunHandler(at, consumer, requestId, script) ==
    LET sent == sendOffchainCallIn(at, consumer, "0x01", "c1", "s1")
        self == replyOffchainCallIn(at, consumer, requestId, "n1", "r1")
        front == IF isEmpty(at.globalQueue) THEN ZeroId ELSE peek(at.globalQueue)
        next == replyOffchainCallIn(at, consumer, front, "n1", "r1")
    IN CASE script = "none" ->
              [s |-> at, err |-> "ok", nested |-> "", nestedId |-> ZeroId]
         [] script = "send" ->
              [s |-> sent.s, err |-> IF sent.err = "ok" THEN "ok" ELSE "handler reverted",
               nested |-> sent.err, nestedId |-> sent.id]
         [] script = "replySelf" ->
              [s |-> self.s, err |-> IF self.err = "ok" THEN "ok" ELSE "handler reverted",
               nested |-> self.err, nestedId |-> requestId]
         [] script = "replySelfCaught" ->
              [s |-> self.s, err |-> "ok", nested |-> self.err, nestedId |-> requestId]
         [] script = "replyNext" ->
              [s |-> next.s, err |-> IF next.err = "ok" THEN "ok" ELSE "handler reverted",
               nested |-> next.err, nestedId |-> front]

\* replyOffchainCall whose callback runs a handler that re-enters the
\* coordinator: one transaction, committed as a whole or reverted as a whole.
replyOffchainCallReentrant(sender, requestId, newStateLocation, returnData, script) ==
    IF replyChecks(sender, requestId) # "ok"
    THEN Revert("reply", sender, requestId, replyChecks(sender, requestId))
    ELSE LET at == StateAtCallback(TxState, requestId, newStateLocation, returnData)
             ran == RunHandler(at, Get(at.requests, requestId, ZeroRequest).requester,
                               requestId, script)
             end == Delivered(ran.s, at, requestId, newStateLocation, returnData)
         IN
         /\ ran.s._nonce <= MaxNonce
         /\ IF ran.err # "ok"
            THEN /\ last' = [op |-> "reply", caller |-> sender, id |-> requestId,
                             err |-> "handler reverted", script |-> script,
                             nested |-> ran.nested, nestedId |-> ran.nestedId]
                 /\ UNCHANGED storage
            ELSE /\ _nonce' = end._nonce
                 /\ requests' = end.requests
                 /\ globalQueue' = end.globalQueue
                 /\ events' = end.events
                 /\ delivered' = end.delivered
                 /\ last' = [op |-> "reply", caller |-> sender, id |-> requestId,
                             err |-> "ok", script |-> script,
                             nested |-> ran.nested, nestedId |-> ran.nestedId]
                 /\ UNCHANGED <<blockNumber, otherContracts, _roles, _whitelist, indexVars>>

\* Only ConsumerB's handler calls back into the coordinator.
ReplyReentrant ==
    \E sender \in {Processor}, id \in ReplyIds, res \in Results, script \in HandlerScripts :
       /\ getRequest(id).requester = ConsumerB
       /\ replyOffchainCallReentrant(sender, id, res[1], res[2], script)
\* The admin lets the re-entrant consumer act as a processor too.
GrantProcessorToConsumer == grantRole(Admin, PROCESSOR_ROLE, ConsumerB)

NextReentrant == Send \/ Reply \/ ReplyReentrant \/ Grant \/ GrantProcessorToConsumer

SpecReentrant == Init /\ [][NextReentrant]_vars

\* ------------------------------------- partitioned coordinator (whitelist)
\* onlyWhitelisted: require(_whitelist[msg.sender], "Caller not whitelisted")
\* The whitelist check that always lets the owner pass.
isWhitelistedOrOwner(account) == account \in _whitelist \cup {Owner}
isWhitelisted(account) == account \in _whitelist

\* The search stopping at the next Sent nonce of any location.
_findNextPendingNonceAnyLocation(reqs, location, currentNonce, isBytecode) ==
    LET found == {nextNonce \in (currentNonce + 1) .. _nonce :
                     \E id \in DOMAIN reqs :
                        reqs[id].nonce = nextNonce /\ reqs[id].state = "Sent"}
    IN IF found = {} THEN 0
       ELSE CHOOSE n \in found : \A m \in found : n <= m
\* _findNextPendingNonce: the first nonce in currentNonce+1 .. _nonce whose
\* request on this location exists and is Sent in reqs, or 0.
_findNextPendingNonce(reqs, location, currentNonce, isBytecode) ==
    LET table == IF isBytecode THEN _bytecodeNonceToRequest ELSE _stateNonceToRequest
        found == {nextNonce \in (currentNonce + 1) .. _nonce :
                     LET nextRequestId == Get(table, <<location, nextNonce>>, ZeroId) IN
                        /\ nextRequestId # ZeroId
                        /\ Get(reqs, nextRequestId, ZeroRequest).state = "Sent"}
    IN IF found = {} THEN 0
       ELSE CHOOSE n \in found : \A m \in found : n <= m

\* Registration that always overwrites the recorded minimum.
RegisterLatest(cur, n) == n
\* The index value after registering nonce n on a location whose minimum is cur.
RegisterMin(cur, n) == IF cur = 0 \/ n < cur THEN n ELSE cur

sendOffchainCallPartitioned(sender, call, bytecodeLocation, currentStateLocation) ==
    IF ~isWhitelisted(sender)
    THEN Revert("send", sender, ZeroId, "Caller not whitelisted")
    ELSE LET requestId == NewRequestId(sender)
             n == _nonce + 1 IN
        /\ _nonce < MaxNonce
        /\ _nonce' = n
        /\ requests' = Put(requests, requestId,
                [state |-> "Sent", blockNumber |-> blockNumber, requester |-> sender,
                 nonce |-> n, call |-> call,
                 bytecodeLocation |-> bytecodeLocation,
                 currentStateLocation |-> currentStateLocation,
                 newStateLocation |-> "", returnData |-> ""])
        /\ _bytecodeNonceToRequest' =
                Put(_bytecodeNonceToRequest, <<bytecodeLocation, n>>, requestId)
        /\ _minPendingNonceBytecode' =
                Put(_minPendingNonceBytecode, bytecodeLocation,
                    RegisterMin(Get(_minPendingNonceBytecode, bytecodeLocation, 0), n))
        /\ _stateNonceToRequest' =
                Put(_stateNonceToRequest, <<currentStateLocation, n>>, requestId)
        /\ _minPendingNonceState' =
                Put(_minPendingNonceState, currentStateLocation,
                    RegisterMin(Get(_minPendingNonceState, currentStateLocation, 0), n))
        /\ events' = Append(events,
                [name |-> "OffchainCallSent", requestId |-> requestId,
                 block |-> blockNumber, call |-> call,
                 bytecodeLocation |-> bytecodeLocation,
                 currentStateLocation |-> currentStateLocation])
        /\ last' = [op |-> "send", caller |-> sender, id |-> requestId, err |-> "ok"]
        /\ UNCHANGED <<blockNumber, otherContracts, globalQueue, _roles, _whitelist, delivered>>

\* The ordering check with the comparison turned around.
LaterPending(minNonce, nonce) == minNonce # 0 /\ minNonce > nonce
\* The ordering check of replyOffchainCall and canProcessRequest on one index:
\* an earlier nonce is still pending on the location.
EarlierPending(minNonce, nonce) == minNonce # 0 /\ minNonce < nonce

\* How the partitioned replyOffchainCall(requestId, ...) called by sender ends
\* in the current state: the first failing check, or "ok".
replyChecksPartitioned(sender, requestId) ==
    LET currentRequest == getRequest(requestId) IN
    IF ~isWhitelisted(sender) THEN "Caller not whitelisted"
    ELSE IF currentRequest.state # "Sent" THEN "Invalid request state"
    ELSE IF EarlierPending(Get(_minPendingNonceBytecode, currentRequest.bytecodeLocation, 0),
                           currentRequest.nonce)
         THEN "Earlier request for same contract is still pending"
    ELSE IF EarlierPending(Get(_minPendingNonceState, currentRequest.currentStateLocation, 0),
                           currentRequest.nonce)
         THEN "Earlier request for same state is still pending"
    ELSE "ok"

\* replyOffchainCall leaving the index as it is.
RepairMinNever(index, reqs, location, nonce, isBytecode) == index
\* The index after the repair of replyOffchainCall: only when the completed
\* nonce was the recorded minimum is the next pending nonce searched.
RepairMin(index, reqs, location, nonce, isBytecode) ==
    IF Get(index, location, 0) = nonce
    THEN Put(index, location, _findNextPendingNonce(reqs, location, nonce, isBytecode))
    ELSE index

replyOffchainCallPartitioned(sender, requestId, newStateLocation, returnData) ==
    IF replyChecksPartitioned(sender, requestId) # "ok"
    THEN Revert("reply", sender, requestId, replyChecksPartitioned(sender, requestId))
    ELSE LET currentRequest == requests[requestId]
             completed == [requests EXCEPT ![requestId].state = "Completed",
                                           ![requestId].newStateLocation = newStateLocation,
                                           ![requestId].returnData = returnData] IN
        /\ requests' = completed
        /\ _minPendingNonceBytecode' =
                RepairMin(_minPendingNonceBytecode, completed,
                          currentRequest.bytecodeLocation, currentRequest.nonce, TRUE)
        /\ _minPendingNonceState' =
                RepairMin(_minPendingNonceState, completed,
                          currentRequest.currentStateLocation, currentRequest.nonce, FALSE)
        /\ events' = Append(events,
                [name |-> "OffchainCallReplied", requestId |-> requestId,
                 block |-> blockNumber, newStateLocation |-> newStateLocation])
        /\ last' = [op |-> "reply", caller |-> sender, id |-> requestId, err |-> "ok"]
        /\ UNCHANGED <<blockNumber, otherContracts, _nonce, globalQueue, _roles, _whitelist,
                       _bytecodeNonceToRequest, _stateNonceToRequest, delivered>>

\* canProcessRequest consulting the bytecode index alone.
canProcessRequestBytecodeOnly(requestId) ==
    LET currentRequest == getRequest(requestId)
        minBytecodeNonce == Get(_minPendingNonceBytecode, currentRequest.bytecodeLocation, 0)
    IN
    IF currentRequest.state = "None"
    THEN [reverted |-> "Request does not exist", canProcess |-> FALSE,
          blockingRequestId |-> ZeroId]
    ELSE IF currentRequest.state = "Completed"
    THEN [reverted |-> "", canProcess |-> TRUE, blockingRequestId |-> ZeroId]
    ELSE IF EarlierPending(minBytecodeNonce, currentRequest.nonce)
    THEN [reverted |-> "", canProcess |-> FALSE,
          blockingRequestId |-> Get(_bytecodeNonceToRequest,
                                    <<currentRequest.bytecodeLocation, minBytecodeNonce>>, ZeroId)]
    ELSE [reverted |-> "", canProcess |-> TRUE, blockingRequestId |-> ZeroId]
\* canProcessRequest reporting the request that registered last on the location.
canProcessRequestNewestBlocker(requestId) ==
    LET currentRequest == getRequest(requestId)
        minBytecodeNonce == Get(_minPendingNonceBytecode, currentRequest.bytecodeLocation, 0)
        minStateNonce == Get(_minPendingNonceState, currentRequest.currentStateLocation, 0)
    IN
    IF currentRequest.state = "None"
    THEN [reverted |-> "Request does not exist", canProcess |-> FALSE,
          blockingRequestId |-> ZeroId]
    ELSE IF currentRequest.state = "Completed"
    THEN [reverted |-> "", canProcess |-> TRUE, blockingRequestId |-> ZeroId]
    ELSE IF EarlierPending(minBytecodeNonce, currentRequest.nonce)
    THEN [reverted |-> "", canProcess |-> FALSE,
          blockingRequestId |-> Get(_bytecodeNonceToRequest,
                                    <<currentRequest.bytecodeLocation, currentRequest.nonce - 1>>,
                                    ZeroId)]
    ELSE IF EarlierPending(minStateNonce, currentRequest.nonce)
    THEN [reverted |-> "", canProcess |-> FALSE,
          blockingRequestId |-> Get(_stateNonceToRequest,
                                    <<currentRequest.currentStateLocation, currentRequest.nonce - 1>>,
                                    ZeroId)]
    ELSE [reverted |-> "", canProcess |-> TRUE, blockingRequestId |-> ZeroId]
\* canProcessRequest without the require on the request's existence.
canProcessRequestUnknownAccepted(requestId) ==
    LET currentRequest == getRequest(requestId)
        minBytecodeNonce == Get(_minPendingNonceBytecode, currentRequest.bytecodeLocation, 0)
        minStateNonce == Get(_minPendingNonceState, currentRequest.currentStateLocation, 0)
    IN
    IF currentRequest.state \in {"None", "Completed"}
    THEN [reverted |-> "", canProcess |-> TRUE, blockingRequestId |-> ZeroId]
    ELSE IF EarlierPending(minBytecodeNonce, currentRequest.nonce)
    THEN [reverted |-> "", canProcess |-> FALSE,
          blockingRequestId |-> Get(_bytecodeNonceToRequest,
                                    <<currentRequest.bytecodeLocation, minBytecodeNonce>>, ZeroId)]
    ELSE IF EarlierPending(minStateNonce, currentRequest.nonce)
    THEN [reverted |-> "", canProcess |-> FALSE,
          blockingRequestId |-> Get(_stateNonceToRequest,
                                    <<currentRequest.currentStateLocation, minStateNonce>>, ZeroId)]
    ELSE [reverted |-> "", canProcess |-> TRUE, blockingRequestId |-> ZeroId]
\* canProcessRequest(requestId): a view; it reverts for an unknown id, else
\* returns (canProcess, blockingRequestId).
canProcessRequest(requestId) ==
    LET currentRequest == getRequest(requestId)
        minBytecodeNonce == Get(_minPendingNonceBytecode, currentRequest.bytecodeLocation, 0)
        minStateNonce == Get(_minPendingNonceState, currentRequest.currentStateLocation, 0)
    IN
    IF currentRequest.state = "None"
    THEN [reverted |-> "Request does not exist", canProcess |-> FALSE,
          blockingRequestId |-> ZeroId]
    ELSE IF currentRequest.state = "Completed"
    THEN [reverted |-> "", canProcess |-> TRUE, blockingRequestId |-> ZeroId]
    ELSE IF EarlierPending(minBytecodeNonce, currentRequest.nonce)
    THEN [reverted |-> "", canProcess |-> FALSE,
          blockingRequestId |-> Get(_bytecodeNonceToRequest,
                                    <<currentRequest.bytecodeLocation, minBytecodeNonce>>, ZeroId)]
    ELSE IF EarlierPending(minStateNonce, currentRequest.nonce)
    THEN [reverted |-> "", canProcess |-> FALSE,
          blockingRequestId |-> Get(_stateNonceToRequest,
                                    <<currentRequest.currentStateLocation, minStateNonce>>, ZeroId)]
    ELSE [reverted |-> "", canProcess |-> TRUE, blockingRequestId |-> ZeroId]

\* addToWhitelist open to every caller.
addToWhitelistByAnyone(sender, account) ==
    IF account = ZeroAddress
    THEN Revert("addToWhitelist", sender, ZeroId, "Cannot whitelist zero address")
    ELSE IF account \in _whitelist
    THEN Revert("addToWhitelist", sender, ZeroId, "Already whitelisted")
    ELSE /\ _whitelist' = _whitelist \cup {account}
         /\ last' = [op |-> "addToWhitelist", caller |-> sender, id |-> ZeroId, err |-> "ok"]
         /\ UNCHANGED <<blockNumber, otherContracts, _nonce, requests, globalQueue, _roles,
                        indexVars, events, delivered>>
\* addToWhitelist / removeFromWhitelist: onlyOwner (Ownable, owner = Owner).
addToWhitelist(sender, account) ==
    IF sender # Owner THEN Revert("addToWhitelist", sender, ZeroId, "OwnableUnauthorizedAccount")
    ELSE IF account = ZeroAddress
    THEN Revert("addToWhitelist", sender, ZeroId, "Cannot whitelist zero address")
    ELSE IF account \in _whitelist
    THEN Revert("addToWhitelist", sender, ZeroId, "Already whitelisted")
    ELSE /\ _whitelist' = _whitelist \cup {account}
         /\ last' = [op |-> "addToWhitelist", caller |-> sender, id |-> ZeroId, err |-> "ok"]
         /\ UNCHANGED <<blockNumber, otherContracts, _nonce, requests, globalQueue, _roles, indexVars,
                        events, delivered>>

removeFromWhitelist(sender, account) ==
    IF sender # Owner
    THEN Revert("removeFromWhitelist", sender, ZeroId, "OwnableUnauthorizedAccount")
    ELSE IF account \notin _whitelist
    THEN Revert("removeFromWhitelist", sender, ZeroId, "Not whitelisted")
    ELSE /\ _whitelist' = _whitelist \ {account}
         /\ last' = [op |-> "removeFromWhitelist", caller |-> sender, id |-> ZeroId, err |-> "ok"]
         /\ UNCHANGED <<blockNumber, otherContracts, _nonce, requests, globalQueue, _roles, indexVars,
                        events, delivered>>

\* State right after the constructor Ownable(initialOwner) with an empty body.
InitPartitioned ==
    /\ InitCommon
    /\ _whitelist = {}
    /\ _roles = [r \in {DEFAULT_ADMIN_ROLE, CONSUMER_ROLE, PROCESSOR_ROLE} |-> {}]
    /\ last = [op |-> "constructor", caller |-> Owner, id |-> ZeroId, err |-> "ok"]

SendPartitioned == \E sender \in {User}, call \in Calls, b \in BytecodeLocations,
                      s \in StateLocations : sendOffchainCallPartitioned(sender, call, b, s)
ReplyPartitioned == \E sender \in {User}, id \in ReplyIds, res \in Results :
                       replyOffchainCallPartitioned(sender, id, res[1], res[2])
AddToWhitelist == \E sender \in {Owner, User}, account \in {User, ZeroAddress} :
                     addToWhitelist(sender, account)
RemoveFromWhitelist == \E sender \in {Owner, User}, account \in {User} :
                          removeFromWhitelist(sender, account)

NextPartitioned == SendPartitioned \/ ReplyPartitioned \/ AddToWhitelist \/ RemoveFromWhitelist

SpecPartitioned == InitPartitioned /\ [][NextPartitioned]_vars

\* A whitelisted caller completes a request that passes every check.
ReplyCompletable ==
    \E sender \in {User}, id \in DOMAIN requests, res \in Results :
       /\ replyChecksPartitioned(sender, id) = "ok"
       /\ replyOffchainCallPartitioned(sender, id, res[1], res[2])
\* The partitioned coordinator with processors that keep replying to
\* completable requests: a completion that is possible again and again is
\* eventually made.
SpecPartitionedLive == SpecPartitioned /\ SF_vars(ReplyCompletable)

\* ------------------------------------------- ExampleConsumer's handler
\* The handler storing the response without updating currentStateLocation.
onOffchainCallResponseKeepingLocation(sender, requestId, newStateLocation, returnData) ==
    IF CallerCheck(sender) # "ok"
    THEN Revert("onOffchainCallResponse", sender, requestId, CallerCheck(sender))
    ELSE /\ Len(exampleConsumer.log) < 2 * MaxResponses
         /\ exampleConsumer' =
               [exampleConsumer EXCEPT
                  !.log = @ \o << [name |-> "OffchainCallResponseReceived",
                                   requestId |-> requestId,
                                   newStateLocation |-> newStateLocation,
                                   returnData |-> returnData],
                                  [name |-> "ResponseReceived", requestId |-> requestId,
                                   newStateLocation |-> newStateLocation,
                                   returnData |-> returnData] >>,
                  !.responses = Put(@, requestId,
                                    [newStateLocation |-> newStateLocation,
                                     returnData |-> returnData, received |-> TRUE])]
         /\ last' = [op |-> "onOffchainCallResponse", caller |-> sender,
                     id |-> requestId, err |-> "ok"]
         /\ UNCHANGED <<blockNumber, harnessQ, fifoModel, pgManager, _nonce, requests, globalQueue,
                        _roles, _whitelist, indexVars, events, delivered>>
\* onOffchainCallResponse of the base contract followed by ExampleConsumer's
\* receiveResponse: two events, currentStateLocation and responses[requestId]
\* (the block.timestamp stored with the response is left out).
onOffchainCallResponse(sender, requestId, newStateLocation, returnData) ==
    IF CallerCheck(sender) # "ok"
    THEN Revert("onOffchainCallResponse", sender, requestId, CallerCheck(sender))
    ELSE /\ Len(exampleConsumer.log) < 2 * MaxResponses
         /\ exampleConsumer' =
               [exampleConsumer EXCEPT
                  !.log = @ \o << [name |-> "OffchainCallResponseReceived",
                                   requestId |-> requestId,
                                   newStateLocation |-> newStateLocation,
                                   returnData |-> returnData],
                                  [name |-> "ResponseReceived", requestId |-> requestId,
                                   newStateLocation |-> newStateLocation,
                                   returnData |-> returnData] >>,
                  !.currentStateLocation = newStateLocation,
                  !.responses = Put(@, requestId,
                                    [newStateLocation |-> newStateLocation,
                                     returnData |-> returnData, received |-> TRUE])]
         /\ last' = [op |-> "onOffchainCallResponse", caller |-> sender,
                     id |-> requestId, err |-> "ok"]
         /\ UNCHANGED <<blockNumber, harnessQ, fifoModel, pgManager, _nonce, requests, globalQueue,
                        _roles, _whitelist, indexVars, events, delivered>>

\* The consumer right after its deployment.
InitConsumer ==
    /\ InitCommon
    /\ _whitelist = {}
    /\ _roles = [r \in {DEFAULT_ADMIN_ROLE, CONSUMER_ROLE, PROCESSOR_ROLE} |-> {}]
    /\ last = [op |-> "constructor", caller |-> Admin, id |-> ZeroId, err |-> "ok"]

OnOffchainCallResponse ==
    \E sender \in HandlerCallers, n \in 1 .. 2, res \in ConsumerResults :
       onOffchainCallResponse(sender, RequestIdOf(blockNumber, ConsumerA, n), res[1], res[2])

NextConsumer == OnOffchainCallResponse

SpecConsumer == InitConsumer /\ [][NextConsumer]_vars

\* ------------------------------------------------ PostgresClientManager
\* connect() finding a pool: `if (this.pool) return;` resolves at once.
connectFastPath(c) ==
    /\ pgManager.calls[c].pc # "validating"
    /\ pgManager.pool # NoPool
    /\ pgManager' = [pgManager EXCEPT !.calls[c] = [pc |-> "resolved", pool |-> pgManager.pool]]
    /\ last' = [op |-> "connect", caller |-> c, id |-> ZeroId, err |-> "resolved"]
    /\ UNCHANGED <<blockNumber, harnessQ, fifoModel, exampleConsumer, _nonce, requests,
                   globalQueue, _roles, _whitelist, indexVars, events, delivered>>

\* connect() finding no pool, up to its first await: buildConfig throws for
\* an invalid PGPORT before anything is assigned; otherwise this.pool is
\* assigned the new Pool and the call waits for the smoke test.
connectCreatePool(c, env) ==
    /\ pgManager.calls[c].pc # "validating"
    /\ pgManager.pool = NoPool
    /\ IF env = "invalid PGPORT"
       THEN /\ pgManager' = [pgManager EXCEPT !.calls[c] = [pc |-> "rejected", pool |-> NoPool]]
            /\ last' = [op |-> "connect", caller |-> c, id |-> ZeroId, err |-> "Invalid PGPORT value"]
       ELSE /\ pgManager.created < MaxPools
            /\ pgManager' = [pgManager EXCEPT
                                !.created = @ + 1,
                                !.pool = pgManager.created + 1,
                                !.calls[c] = [pc |-> "validating", pool |-> pgManager.created + 1]]
            /\ last' = [op |-> "connect", caller |-> c, id |-> ZeroId, err |-> "pending"]
    /\ UNCHANGED <<blockNumber, harnessQ, fifoModel, exampleConsumer, _nonce, requests,
                   globalQueue, _roles, _whitelist, indexVars, events, delivered>>

\* The smoke test of a pending connect() ends: pool.connect() and SELECT 1
\* succeed, and the call resolves, or one of them throws, and the call
\* rejects. A pool that was ended cannot hand out a client. this.pool is not
\* touched either way.
connectSmokeTest(c, answered) ==
    /\ pgManager.calls[c].pc = "validating"
    /\ answered => pgManager.calls[c].pool \notin pgManager.ended
    /\ pgManager' = [pgManager EXCEPT
                        !.validated = IF answered THEN @ \cup {pgManager.calls[c].pool} ELSE @,
                        !.calls[c].pc = IF answered THEN "resolved" ELSE "rejected"]
    /\ last' = [op |-> "connect", caller |-> c, id |-> ZeroId,
                err |-> IF answered THEN "resolved" ELSE "rejected"]
    /\ UNCHANGED <<blockNumber, harnessQ, fifoModel, exampleConsumer, _nonce, requests,
                   globalQueue, _roles, _whitelist, indexVars, events, delivered>>

\* disconnect(): nothing without a pool; otherwise this.pool = null and the
\* pool is ended.
disconnect ==
    /\ pgManager' = IF pgManager.pool = NoPool THEN pgManager
                    ELSE [pgManager EXCEPT !.pool = NoPool, !.ended = @ \cup {pgManager.pool}]
    /\ last' = [op |-> "disconnect", caller |-> "server", id |-> ZeroId, err |-> "resolved"]
    /\ UNCHANGED <<blockNumber, harnessQ, fifoModel, exampleConsumer, _nonce, requests,
                   globalQueue, _roles, _whitelist, indexVars, events, delivered>>

\* getPool(): the pool, or the error thrown without one.
getPool ==
    [thrown |-> IF pgManager.pool = NoPool THEN "Postgres pool not initialized" ELSE "",
     pool |-> pgManager.pool]

InitPostgres ==
    /\ InitCommon
    /\ _whitelist = {}
    /\ _roles = [r \in {DEFAULT_ADMIN_ROLE, CONSUMER_ROLE, PROCESSOR_ROLE} |-> {}]
    /\ last = [op |-> "constructor", caller |-> "server", id |-> ZeroId, err |-> "ok"]

ConnectFastPath == \E c \in ConnectCalls : connectFastPath(c)
ConnectCreatePool == \E c \in ConnectCalls, env \in Envs : connectCreatePool(c, env)
ConnectSmokeTest == \E c \in ConnectCalls, answered \in BOOLEAN : connectSmokeTest(c, answered)

NextPostgres == ConnectFastPath \/ ConnectCreatePool \/ ConnectSmokeTest \/ disconnect

SpecPostgres == InitPostgres /\ [][NextPostgres]_vars

\* ------------------------------------------------- FIFOBytes32Harness
\* b32(i) of the queue tests: the number i as a bytes32 value.
b32(i) == <<0, "b32", i>>
HarnessValues == {b32(1), b32(2)}

\* The harness functions forward to the library on the harness's own queue;
\* fifoModel is the reference FIFO the tests keep beside it.
harnessEnqueue(v) ==
    /\ harnessQ.tail < MaxTail
    /\ harnessQ' = enqueue(harnessQ, v)
    /\ fifoModel' = Append(fifoModel, v)
    /\ last' = [op |-> "enqueue", caller |-> Admin, id |-> v, err |-> "ok"]
    /\ UNCHANGED <<blockNumber, exampleConsumer, pgManager, _nonce, requests, globalQueue, _roles,
                   _whitelist, indexVars, events, delivered>>

harnessDequeue ==
    IF QueueCheck(harnessQ) # "ok"
    THEN Revert("dequeue", Admin, ZeroId, QueueCheck(harnessQ))
    ELSE /\ harnessQ' = dequeue(harnessQ)
         /\ fifoModel' = SubSeq(fifoModel, 2, Len(fifoModel))
         /\ last' = [op |-> "dequeue", caller |-> Admin,
                     id |-> Get(harnessQ.data, harnessQ.head, ZeroId), err |-> "ok"]
         /\ UNCHANGED <<blockNumber, exampleConsumer, pgManager, _nonce, requests, globalQueue, _roles,
                        _whitelist, indexVars, events, delivered>>

\* peek is a view: the call is recorded with the value it returned.
harnessPeek ==
    IF QueueCheck(harnessQ) # "ok"
    THEN Revert("peek", Admin, ZeroId, QueueCheck(harnessQ))
    ELSE /\ last' = [op |-> "peek", caller |-> Admin,
                     id |-> Get(harnessQ.data, harnessQ.head, ZeroId), err |-> "ok"]
         /\ UNCHANGED storage

harnessResetIfEmpty ==
    /\ harnessQ' = resetIfEmpty(harnessQ)
    /\ last' = [op |-> "resetIfEmpty", caller |-> Admin, id |-> ZeroId, err |-> "ok"]
    /\ UNCHANGED <<blockNumber, fifoModel, exampleConsumer, pgManager, _nonce, requests, globalQueue,
                   _roles, _whitelist, indexVars, events, delivered>>

\* The harness right after deployment.
InitQueue ==
    /\ InitCommon
    /\ _whitelist = {}
    /\ _roles = [r \in {DEFAULT_ADMIN_ROLE, CONSUMER_ROLE, PROCESSOR_ROLE} |-> {}]
    /\ last = [op |-> "constructor", caller |-> Admin, id |-> ZeroId, err |-> "ok"]

HarnessEnqueue == \E v \in HarnessValues : harnessEnqueue(v)

NextQueue == HarnessEnqueue \/ harnessDequeue \/ harnessPeek \/ harnessResetIfEmpty

SpecQueue == InitQueue /\ [][NextQueue]_vars

\* ---------------------------------------- FIFO coordinator (whitelist)
\* The whitelist-based coordinator with the global queue: no interface check
\* at admission, and replyOffchainCall neither stores the result nor calls back.
sendOffchainCallWhitelist(sender, call, bytecodeLocation, currentStateLocation) ==
    IF ~isWhitelisted(sender)
    THEN Revert("send", sender, ZeroId, "Caller not whitelisted")
    ELSE LET requestId == NewRequestId(sender) IN
        /\ _nonce < MaxNonce
        /\ _nonce' = _nonce + 1
        /\ requests' = Put(requests, requestId,
                [state |-> "Sent", blockNumber |-> blockNumber, requester |-> sender,
                 nonce |-> _nonce + 1, call |-> call,
                 bytecodeLocation |-> bytecodeLocation,
                 currentStateLocation |-> currentStateLocation,
                 newStateLocation |-> "", returnData |-> ""])
        /\ globalQueue' = enqueue(globalQueue, requestId)
        /\ events' = Append(events,
                [name |-> "OffchainCallSent", requestId |-> requestId,
                 block |-> blockNumber, call |-> call,
                 bytecodeLocation |-> bytecodeLocation,
                 currentStateLocation |-> currentStateLocation])
        /\ last' = [op |-> "send", caller |-> sender, id |-> requestId, err |-> "ok"]
        /\ UNCHANGED <<blockNumber, otherContracts, _roles, _whitelist, indexVars, delivered>>

\* How the whitelist FIFO replyOffchainCall(requestId, ...) called by sender
\* ends in the current state: the first failing check, or "ok".
replyChecksWhitelist(sender, requestId) ==
    IF ~isWhitelisted(sender) THEN "Caller not whitelisted"
    ELSE IF getRequestState(requestId) # "Sent" THEN "Invalid request state"
    ELSE IF peek(globalQueue) = QueueEmpty THEN "QueueEmpty"
    ELSE IF peek(globalQueue) # requestId THEN "errorFulfillingOutOfOrder"
    ELSE "ok"

replyOffchainCallWhitelist(sender, requestId, newStateLocation, returnData) ==
    IF replyChecksWhitelist(sender, requestId) # "ok"
    THEN Revert("reply", sender, requestId, replyChecksWhitelist(sender, requestId))
    ELSE
        /\ globalQueue' = dequeue(globalQueue)
        /\ requests' = [requests EXCEPT ![requestId].state = "Completed"]
        /\ events' = Append(events,
                [name |-> "OffchainCallReplied", requestId |-> requestId,
                 block |-> blockNumber, newStateLocation |-> newStateLocation])
        /\ last' = [op |-> "reply", caller |-> sender, id |-> requestId, err |-> "ok"]
        /\ UNCHANGED <<blockNumber, otherContracts, _nonce, _roles, _whitelist, indexVars, delivered>>

\* State right after the constructor Ownable(initialOwner) with an empty body.
InitWhitelist ==
    /\ InitCommon
    /\ _whitelist = {}
    /\ _roles = [r \in {DEFAULT_ADMIN_ROLE, CONSUMER_ROLE, PROCESSOR_ROLE} |-> {}]
    /\ last = [op |-> "constructor", caller |-> Owner, id |-> ZeroId, err |-> "ok"]

SendWhitelist == \E sender \in {User, Owner}, call \in Calls, b \in BytecodeLocations,
                    s \in FifoStateLocations : sendOffchainCallWhitelist(sender, call, b, s)
ReplyWhitelist == \E sender \in {User, Owner}, id \in ReplyIds, res \in Results :
                     replyOffchainCallWhitelist(sender, id, res[1], res[2])

\* Whitelist calls of this coordinator: the owner's own address included.
WhitelistCallers == {Owner, User}
WhitelistAccounts == {User, Owner, ZeroAddress}
AddToWhitelistFifo == \E sender \in WhitelistCallers, account \in WhitelistAccounts :
                         addToWhitelist(sender, account)
RemoveFromWhitelistFifo == \E sender \in WhitelistCallers, account \in WhitelistAccounts :
                              removeFromWhitelist(sender, account)

NextWhitelist == SendWhitelist \/ ReplyWhitelist \/ AddToWhitelistFifo \/ RemoveFromWhitelistFifo

SpecWhitelist == InitWhitelist /\ [][NextWhitelist]_vars

\* ======================================================================
\* Properties of the FIFO coordinator (Spec)
\* ======================================================================
\* Ids in the order their OffchainCallSent / OffchainCallReplied was emitted.
IdsOf(name) ==
    LET es == SelectSeq(events, LAMBDA e : e.name = name)
    IN [i \in 1 .. Len(es) |-> es[i].requestId]
SentIds == IdsOf("OffchainCallSent")
RepliedIds == IdsOf("OffchainCallReplied")

SentRequests == {id \in DOMAIN requests : requests[id].state = "Sent"}
\* The Sent request admitted first.
OldestSent == CHOOSE id \in SentRequests :
                 \A other \in SentRequests : requests[id].nonce <= requests[other].nonce

\* C1: the FIFO coordinator completes requests in exactly their admission
\* order: the completed ids are the first admitted ids, in the same order and
\* with nonces 1, 2, ..., and every successful replyOffchainCall was on the id
\* at the front of the queue, which is the oldest Sent request.
C1_CompletionOrder ==
    /\ Len(RepliedIds) <= Len(SentIds)
    /\ \A i \in 1 .. Len(RepliedIds) :
          RepliedIds[i] = SentIds[i] /\ requests[RepliedIds[i]].nonce = i
C1_ReplyOnlyAtFront ==
    (last'.op = "reply" /\ last'.err = "ok")
        => (last'.id = nextRequest /\ last'.id = OldestSent)
C1_FifoOrder == []C1_CompletionOrder /\ [][C1_ReplyOnlyAtFront]_vars
\* Three requests admitted, two of them completed, one still pending.
C1_Witness == Len(SentIds) = 3 /\ Len(RepliedIds) = 2

\* C2: a request id is completed at most once: it has at most one
\* OffchainCallReplied event and at most one delivery to its requester; on a
\* Completed id every replyOffchainCall reverts, with "Invalid request state"
\* for a caller that holds PROCESSOR_ROLE, and the reverted call changes nothing.
C2_AtMostOnce ==
    /\ \A i, j \in 1 .. Len(RepliedIds) : RepliedIds[i] = RepliedIds[j] => i = j
    /\ \A i, j \in 1 .. Len(delivered) :
          delivered[i].requestId = delivered[j].requestId => i = j
    /\ \A id \in DOMAIN requests : requests[id].state = "Completed" =>
          \A sender \in Addresses :
             /\ replyChecks(sender, id) # "ok"
             /\ hasRole(PROCESSOR_ROLE, sender) =>
                   replyChecks(sender, id) = "Invalid request state"
C2_ReplayChangesNothing ==
    (last'.op = "reply" /\ last'.err = "Invalid request state")
        => UNCHANGED storage
C2_SingleCompletion == []C2_AtMostOnce /\ [][C2_ReplayChangesNothing]_vars
\* A reply on an already Completed id has just been rejected.
C2_Witness ==
    /\ last.op = "reply" /\ last.err = "Invalid request state"
    /\ getRequestState(last.id) = "Completed"

\* C3: the state of every request id only moves None -> Sent, by the successful
\* sendOffchainCall that returned the id, and Sent -> Completed, by a successful
\* replyOffchainCall on the id; every other step leaves it as it is.
C3_Step(id) ==
    LET before == getRequestState(id)
        after == Get(requests', id, ZeroRequest).state
    IN before # after =>
          \/ /\ before = "None" /\ after = "Sent"
             /\ last' = [op |-> "send", caller |-> requests'[id].requester,
                         id |-> id, err |-> "ok"]
          \/ /\ before = "Sent" /\ after = "Completed"
             /\ last'.op = "reply" /\ last'.id = id /\ last'.err = "ok"
C3_Lifecycle == [][\A id \in (DOMAIN requests') \cup {FakeId, ZeroId} : C3_Step(id)]_vars
\* Some request is Completed while another is Sent, after a rejected call.
C3_Witness ==
    /\ \E id \in DOMAIN requests : requests[id].state = "Completed"
    /\ \E id \in DOMAIN requests : requests[id].state = "Sent"
    /\ last.err # "ok"

\* C4: the ids returned by the successful sendOffchainCall calls are pairwise
\* distinct, and the records they created carry the nonces 1, 2, ... in the
\* order of admission, each nonce once.
C4_UniqueIds ==
    /\ Len(SentIds) = _nonce
    /\ \A i, j \in 1 .. Len(SentIds) : SentIds[i] = SentIds[j] => i = j
    /\ \A i \in 1 .. Len(SentIds) : getRequest(SentIds[i]).nonce = i
    /\ Cardinality(DOMAIN requests) = _nonce
\* Three admissions in the same block, by two different consumers.
C4_Witness ==
    /\ Len(SentIds) = 3
    /\ \E i, j \in 1 .. Len(SentIds) :
          requests[SentIds[i]].requester # requests[SentIds[j]].requester
    /\ \E i, j \in 1 .. Len(SentIds) :
          i # j /\ requests[SentIds[i]].requester = requests[SentIds[j]].requester

\* C10: in the FIFO coordinator a replyOffchainCall by a processor on a Sent
\* request that is not at the front of the queue ends with
\* errorFulfillingOutOfOrder, and the rejected call changes nothing: storage,
\* queue, events and deliveries are as before, and both that request and the
\* front request are still Sent.
C10_Rejected ==
    \A id \in SentRequests : id # nextRequest =>
       \A sender \in Addresses : hasRole(PROCESSOR_ROLE, sender) =>
          replyChecks(sender, id) = "errorFulfillingOutOfOrder"
C10_NoChange ==
    (last'.op = "reply" /\ last'.err = "errorFulfillingOutOfOrder")
        => /\ UNCHANGED storage
           /\ Get(requests', last'.id, ZeroRequest).state = "Sent"
           /\ Get(requests', nextRequest, ZeroRequest).state = "Sent"
           /\ last'.id # nextRequest
C10_OutOfOrderRejected == []C10_Rejected /\ [][C10_NoChange]_vars
\* An out-of-order reply has just been rejected.
C10_Witness ==
    /\ last.op = "reply" /\ last.err = "errorFulfillingOutOfOrder"
    /\ isPending(last.id) /\ isPending(nextRequest) /\ last.id # nextRequest

\* ======================================================================
\* Properties of the partitioned coordinator (SpecPartitioned)
\* ======================================================================
\* The Sent requests with a lower nonce than id on its bytecode location, on
\* its state location, and on either.
EarlierOnBytecode(id) ==
    {o \in SentRequests : /\ requests[o].nonce < requests[id].nonce
                          /\ requests[o].bytecodeLocation = requests[id].bytecodeLocation}
EarlierOnState(id) ==
    {o \in SentRequests : /\ requests[o].nonce < requests[id].nonce
                          /\ requests[o].currentStateLocation = requests[id].currentStateLocation}
Blockers(id) == EarlierOnBytecode(id) \cup EarlierOnState(id)
\* The request of lowest nonce in a non-empty set of requests.
Earliest(ids) == CHOOSE id \in ids : \A o \in ids : requests[id].nonce <= requests[o].nonce
SharesKey(a, b) ==
    \/ requests[a].bytecodeLocation = requests[b].bytecodeLocation
    \/ requests[a].currentStateLocation = requests[b].currentStateLocation
EarlierPendingErrors == {"Earlier request for same contract is still pending",
                         "Earlier request for same state is still pending"}

\* C5: in the partitioned coordinator a replyOffchainCall by a whitelisted
\* caller on a Sent request reverts with "Earlier request for same contract /
\* state is still pending" while a Sent request of lower nonce has the same
\* bytecodeLocation or the same currentStateLocation; so of two requests that
\* share a key the one of higher nonce is never Completed while the other is Sent.
C5_SerializedPerKey ==
    /\ \A id \in SentRequests : Blockers(id) # {} =>
          \A sender \in _whitelist :
             replyChecksPartitioned(sender, id) \in EarlierPendingErrors
    /\ \A a, b \in DOMAIN requests :
          (SharesKey(a, b) /\ requests[a].nonce < requests[b].nonce
              /\ requests[b].state = "Completed") => requests[a].state = "Completed"
\* A reply has just been rejected because an earlier request on a shared key
\* is pending, after the first request on that key was completed.
C5_Witness ==
    /\ last.op = "reply" /\ last.err \in EarlierPendingErrors
    /\ Blockers(last.id) # {}
    /\ \E a \in DOMAIN requests :
          /\ SharesKey(a, last.id) /\ SharesKey(a, Earliest(Blockers(last.id)))
          /\ requests[a].state = "Completed"

\* C6: in the partitioned coordinator a Sent request with no Sent request of
\* lower nonce on its bytecodeLocation or its currentStateLocation can be
\* completed by every whitelisted caller, whatever else is pending.
C6_UnblockedCompletes ==
    \A id \in SentRequests : Blockers(id) = {} =>
       \A sender \in _whitelist : replyChecksPartitioned(sender, id) = "ok"
\* A request was completed while a request of lower nonce with other keys is
\* Sent, and a third request, admitted last, is completable as well.
C6_Witness ==
    /\ last.op = "reply" /\ last.err = "ok"
    /\ \E o \in SentRequests :
          requests[o].nonce < requests[last.id].nonce /\ ~SharesKey(o, last.id)
    /\ \E id \in SentRequests :
          /\ requests[id].nonce > requests[last.id].nonce
          /\ Blockers(id) = {} /\ _whitelist # {}

\* C7: for every location, separately in the bytecode index and in the state
\* index, the recorded minimum pending nonce is 0 exactly when no Sent request
\* has the location, and is otherwise the smallest nonce of the Sent requests
\* that have it.
TrueMin(ids) == IF ids = {} THEN 0 ELSE requests[Earliest(ids)].nonce
C7_MinPendingExact ==
    /\ \A k \in BytecodeLocations :
          Get(_minPendingNonceBytecode, k, 0) =
             TrueMin({id \in SentRequests : requests[id].bytecodeLocation = k})
    /\ \A k \in StateLocations :
          Get(_minPendingNonceState, k, 0) =
             TrueMin({id \in SentRequests : requests[id].currentStateLocation = k})
\* A completion repaired an index past a gap: the minimum of a bytecode
\* location is nonce 3 while nonce 2, on another location, is still Sent, and
\* another index went back to the sentinel.
C7_Witness ==
    /\ \E k \in BytecodeLocations : Get(_minPendingNonceBytecode, k, 0) = 3
    /\ \E id \in SentRequests : requests[id].nonce = 2
    /\ \E k \in StateLocations :
          k \in DOMAIN _minPendingNonceState /\ _minPendingNonceState[k] = 0

\* C8: for every Sent request, canProcessRequest returns canProcess = true
\* exactly when replyOffchainCall on it by a whitelisted caller would succeed,
\* which is exactly when no earlier Sent request shares one of its locations.
C8_CanProcessIffReplySucceeds ==
    \A id \in SentRequests :
       /\ canProcessRequest(id).reverted = ""
       /\ canProcessRequest(id).canProcess <=> (Blockers(id) = {})
       /\ \A sender \in _whitelist :
             canProcessRequest(id).canProcess <=> (replyChecksPartitioned(sender, id) = "ok")
\* Scenario A: the first request was completed, the second, on the same keys,
\* is now processable, and a third on the same keys is not.
C8_Witness ==
    /\ _whitelist # {}
    /\ \E a, b, c \in DOMAIN requests :
          /\ requests[a].nonce = 1 /\ requests[b].nonce = 2 /\ requests[c].nonce = 3
          /\ requests[a].bytecodeLocation = requests[b].bytecodeLocation
          /\ requests[a].currentStateLocation = requests[b].currentStateLocation
          /\ requests[c].currentStateLocation = requests[b].currentStateLocation
          /\ requests[a].state = "Completed"
          /\ requests[b].state = "Sent" /\ canProcessRequest(b).canProcess
          /\ requests[c].state = "Sent" /\ ~canProcessRequest(c).canProcess

\* C9 as stated: when canProcessRequest returns false for a Sent request, the
\* blocking id it returns is the Sent request of lowest nonce among those
\* that share the bytecodeLocation or the currentStateLocation.
C9_BlockerIsEarliestOverall ==
    \A id \in SentRequests : ~canProcessRequest(id).canProcess =>
       /\ Blockers(id) # {}
       /\ canProcessRequest(id).blockingRequestId = Earliest(Blockers(id))
\* C9 as the code has it: when canProcessRequest returns false for a Sent
\* request, the blocking id is a Sent request of lower nonce: the earliest one
\* on the same bytecodeLocation if there is one, and otherwise the earliest
\* one on the same currentStateLocation.
C9_BlockerIsEarliestOnFirstBlockedKey ==
    \A id \in SentRequests : ~canProcessRequest(id).canProcess =>
       /\ Blockers(id) # {}
       /\ canProcessRequest(id).blockingRequestId =
             IF EarlierOnBytecode(id) # {} THEN Earliest(EarlierOnBytecode(id))
             ELSE Earliest(EarlierOnState(id))
\* A request blocked on both locations, by different requests, the one on the
\* state location being the older; and a request blocked on its state
\* location alone.
C9_Witness ==
    /\ \E id \in SentRequests :
          /\ EarlierOnBytecode(id) # {} /\ EarlierOnState(id) # {}
          /\ requests[Earliest(EarlierOnState(id))].nonce
                < requests[Earliest(EarlierOnBytecode(id))].nonce
          /\ ~canProcessRequest(id).canProcess
    /\ \E id \in SentRequests :
          /\ EarlierOnBytecode(id) = {} /\ EarlierOnState(id) # {}
          /\ ~canProcessRequest(id).canProcess

\* ======================================================================
\* Errors, callbacks and frame properties of the FIFO coordinator (Spec)
\* ======================================================================
\* Every id a processor may name: the admitted ones, one never admitted, and
\* bytes32(0).
NameableIds == (DOMAIN requests) \cup {FakeId, ZeroId}

\* C11: replyOffchainCall by a processor on an id whose state is not Sent
\* (never admitted, or already Completed) reverts with "Invalid request
\* state"; the rejected call leaves records, queue, nonce and logs as they
\* were, and nextRequest() returns the same front id as before.
C11_Rejected ==
    \A id \in NameableIds : getRequestState(id) # "Sent" =>
       \A sender \in _roles[PROCESSOR_ROLE] :
          replyChecks(sender, id) = "Invalid request state"
C11_NoChange ==
    (last'.op = "reply" /\ last'.err = "Invalid request state")
        => /\ getRequestState(last'.id) # "Sent"
           /\ UNCHANGED <<requests, globalQueue, _nonce, indexVars, events, delivered>>
           /\ nextRequest' = nextRequest
C11_InvalidStateRejected == []C11_Rejected /\ [][C11_NoChange]_vars
\* A reply on an id never admitted has just been rejected while one request
\* is Completed and another one is at the front of the queue.
C11_Witness ==
    /\ last.op = "reply" /\ last.err = "Invalid request state"
    /\ getRequestState(last.id) = "None"
    /\ nextRequest # ZeroId /\ isPending(nextRequest)
    /\ \E id \in DOMAIN requests : requests[id].state = "Completed"

\* C12 as stated: when the requester's handler fails during
\* replyOffchainCall, the failure reaches the caller but the coordinator keeps
\* its writes: the request is Completed, its result is stored and it is no
\* longer at the front of the queue.
C12_HandlerFailureKeepsCompletion ==
    [][(last'.op = "reply" /\ last'.err = "handler reverted")
          => /\ Get(requests', last'.id, ZeroRequest).state = "Completed"
             /\ Get(requests', last'.id, ZeroRequest).newStateLocation # ""
             /\ nextRequest' # last'.id]_vars
\* The handler of the requester has just failed: the request is still Sent
\* and still at the front of the queue.
C12_Witness ==
    /\ last.op = "reply" /\ last.err = "handler reverted"
    /\ isPending(last.id) /\ nextRequest = last.id

\* C13: every successful replyOffchainCall(id, loc, data) calls
\* onOffchainCallResponse exactly once, on the requester recorded for id at
\* admission, with the arguments (id, loc, data); no other step calls a
\* handler, and over a history an id is delivered at most once.
C13_OneCallback ==
    \A res \in Results :
       (/\ last'.op = "reply" /\ last'.err = "ok"
        /\ replyOffchainCall(last'.caller, last'.id, res[1], res[2]))
          => /\ Len(delivered') = Len(delivered) + 1
             /\ SubSeq(delivered', 1, Len(delivered)) = delivered
             /\ delivered'[Len(delivered')].to = requests[last'.id].requester
             /\ delivered'[Len(delivered')].to = requests'[last'.id].requester
             /\ delivered'[Len(delivered')].requestId = last'.id
             /\ delivered'[Len(delivered')].newStateLocation = res[1]
             /\ delivered'[Len(delivered')].returnData = res[2]
C13_NoOtherCallback ==
    ~(last'.op = "reply" /\ last'.err = "ok") => delivered' = delivered
C13_AtMostOncePerId ==
    /\ \A i, j \in 1 .. Len(delivered) :
          delivered[i].requestId = delivered[j].requestId => i = j
    /\ \A i \in 1 .. Len(delivered) :
          /\ delivered[i].requestId \in DOMAIN requests
          /\ delivered[i].to = requests[delivered[i].requestId].requester
C13_CallbackToRequester ==
    []C13_AtMostOncePerId /\ [][C13_OneCallback /\ C13_NoOtherCallback]_vars
\* Requests of two different consumers were completed, each delivered to its
\* own requester.
C13_Witness ==
    /\ Len(delivered) = 2
    /\ delivered[1].to # delivered[2].to
    /\ last.op = "reply" /\ last.err = "ok"

\* C14: sendOffchainCall by a caller that holds CONSUMER_ROLE but does not
\* answer the IResponseOffchainCallConsumer interface query is rejected, and
\* the rejected call creates no record, leaves the nonce and the queue as
\* they were and emits no OffchainCallSent event.
C14_NoAdmission ==
    (last'.op = "send" /\ last'.caller \in _roles[CONSUMER_ROLE]
        /\ ~supportsInterface(last'.caller))
        => /\ last'.err \in {"reverted without reason", "ConsumerDoesNotSupportInterface"}
           /\ DOMAIN requests' = DOMAIN requests
           /\ UNCHANGED <<requests, _nonce, globalQueue, events>>
C14_UnsupportedConsumerRejected == [][C14_NoAdmission]_vars
\* An account without code that holds CONSUMER_ROLE has just been rejected,
\* after an admission by a consumer contract.
C14_Witness ==
    /\ last.op = "send" /\ last.err = "reverted without reason"
    /\ last.caller \in _roles[CONSUMER_ROLE]
    /\ _nonce = 1 /\ Len(events) = 1

\* C15: a sendOffchainCall succeeds only if its caller holds CONSUMER_ROLE
\* at the time of the call and a replyOffchainCall only if its caller holds
\* PROCESSOR_ROLE; a caller without the role of the function, whatever other
\* role it holds or held before, is rejected with
\* AccessControlUnauthorizedAccount, and the rejected call changes nothing.
RoleOf(op) == IF op = "send" THEN CONSUMER_ROLE ELSE PROCESSOR_ROLE
C15_RoleGate ==
    last'.op \in {"send", "reply"} =>
       /\ last'.err = "ok" => last'.caller \in _roles[RoleOf(last'.op)]
       /\ last'.caller \notin _roles[RoleOf(last'.op)]
             => /\ last'.err = "AccessControlUnauthorizedAccount"
                /\ UNCHANGED storage
C15_RoleRequired == [][C15_RoleGate]_vars
\* The processor completed a request, lost PROCESSOR_ROLE, still holds
\* CONSUMER_ROLE, and its reply on a pending request has just been rejected.
C15_Witness ==
    /\ last.op = "reply" /\ last.err = "AccessControlUnauthorizedAccount"
    /\ last.caller \in _roles[CONSUMER_ROLE]
    /\ last.caller \notin _roles[PROCESSOR_ROLE]
    /\ isPending(last.id)
    /\ \E id \in DOMAIN requests : requests[id].state = "Completed"

\* C16: _nonce is the number of successful sendOffchainCall calls: it starts
\* at 0, a successful send adds one, no other step changes it, and every
\* rejected call leaves the nonce and all storage and logs as they were.
C16_NonceStep ==
    /\ _nonce' = _nonce + (IF last'.op = "send" /\ last'.err = "ok" THEN 1 ELSE 0)
    /\ last'.err # "ok" => UNCHANGED storage
C16_NonceCountsAdmissions ==
    [](_nonce = Len(SentIds) /\ _nonce >= 0) /\ [][C16_NonceStep]_vars
\* After two admissions a send by a consumer that lost its role was rejected.
C16_Witness ==
    /\ _nonce = 2
    /\ last.op = "send" /\ last.err = "AccessControlUnauthorizedAccount"
    /\ \E id \in DOMAIN requests : requests[id].requester = last.caller

\* C17 as stated: newStateLocation and returnData of a request are empty
\* while it is Sent, a successful replyOffchainCall(id, loc, data) stores
\* loc and data in the record of id, and the record of a Completed request
\* never changes again.  (Stated for every coordinator; the whitelist FIFO
\* coordinator of SpecWhitelist is the one that does not store the result.)
C17_EmptyWhileSent ==
    \A id \in SentRequests :
       requests[id].newStateLocation = "" /\ requests[id].returnData = ""
C17_StoredOnReply ==
    (last'.op = "reply" /\ last'.err = "ok")
        => /\ \E res \in Results :
                 /\ requests'[last'.id].newStateLocation = res[1]
                 /\ requests'[last'.id].returnData = res[2]
           /\ requests'[last'.id].newStateLocation
                 = events'[Len(events')].newStateLocation
C17_ImmutableAfter ==
    \A id \in DOMAIN requests :
       requests[id].state = "Completed" => requests'[id] = requests[id]
C17_ResultFields ==
    []C17_EmptyWhileSent /\ [][C17_StoredOnReply /\ C17_ImmutableAfter]_vars
\* The whitelist FIFO coordinator completed a request with location "n1", as
\* its OffchainCallReplied event shows, and the record holds no result.
C17_Witness ==
    /\ last.op = "reply" /\ last.err = "ok"
    /\ requests[last.id].state = "Completed"
    /\ requests[last.id].newStateLocation = "" /\ requests[last.id].returnData = ""
    /\ events[Len(events)].requestId = last.id
    /\ events[Len(events)].newStateLocation # ""

\* C18: when onOffchainCallResponse runs inside replyOffchainCall(id, loc,
\* data) the coordinator's writes are already made: getRequest(id) read by the
\* handler is Completed with loc and data stored, and nextRequest() read by
\* the handler is not id.
C18_HandlerSeesCompleted ==
    \A i \in 1 .. Len(delivered) :
       /\ delivered[i].seen.state = "Completed"
       /\ delivered[i].seen.newStateLocation = delivered[i].newStateLocation
       /\ delivered[i].seen.returnData = delivered[i].returnData
       /\ delivered[i].seen.newStateLocation # ""
       /\ delivered[i].seen.nextRequest # delivered[i].requestId
\* One handler ran while another request was next in the queue, and one ran
\* when the queue had become empty.
C18_Witness ==
    /\ \E i \in 1 .. Len(delivered) :
          /\ delivered[i].seen.nextRequest \in DOMAIN requests
          /\ delivered[i].seen.nextRequest # delivered[i].requestId
    /\ \E i \in 1 .. Len(delivered) : delivered[i].seen.nextRequest = ZeroId

\* C19: a Sent request stays Sent, with its record as it is, under every step
\* other than a successful replyOffchainCall on its own id: admissions,
\* completions of other requests, rejected calls and role changes (those of
\* its requester included) leave it alone, and no step removes it.
C19_SentFrame ==
    \A id \in SentRequests :
       /\ id \in DOMAIN requests'
       /\ requests'[id] # requests[id]
             => /\ last' = [op |-> "reply", caller |-> last'.caller, id |-> id, err |-> "ok"]
                /\ requests'[id].state = "Completed"
C19_SentUntilCompleted == [][C19_SentFrame]_vars
\* A request is Sent although its requester has just lost CONSUMER_ROLE, while
\* an earlier request is Completed and a later one was admitted.
C19_Witness ==
    /\ last.op = "revokeRole" /\ last.err = "ok"
    /\ \E id \in SentRequests :
          /\ requests[id].requester \notin _roles[CONSUMER_ROLE]
          /\ requests[id].nonce = 2
    /\ \E id \in DOMAIN requests : requests[id].state = "Completed"
    /\ _nonce = 3

\* C20: for every request id the log holds exactly one OffchainCallSent
\* event and at most one OffchainCallReplied event, the latter after the
\* former and only for a Completed request; a successful send or reply
\* appends exactly its own event, and every other step, rejected calls
\* included, appends nothing.
EventsOf(name, id) == {i \in 1 .. Len(events) : events[i].name = name /\ events[i].requestId = id}
C20_LogShape ==
    /\ \A i \in 1 .. Len(events) : events[i].requestId \in DOMAIN requests
    /\ \A id \in DOMAIN requests :
          /\ Cardinality(EventsOf("OffchainCallSent", id)) = 1
          /\ Cardinality(EventsOf("OffchainCallReplied", id))
                = (IF requests[id].state = "Completed" THEN 1 ELSE 0)
          /\ \A i \in EventsOf("OffchainCallSent", id), j \in EventsOf("OffchainCallReplied", id) :
                i < j
C20_LogStep ==
    IF last'.err = "ok" /\ last'.op \in {"send", "reply"}
    THEN /\ Len(events') = Len(events) + 1
         /\ SubSeq(events', 1, Len(events)) = events
         /\ events'[Len(events')].requestId = last'.id
         /\ events'[Len(events')].name =
               (IF last'.op = "send" THEN "OffchainCallSent" ELSE "OffchainCallReplied")
    ELSE events' = events
C20_OneEventEach == []C20_LogShape /\ [][C20_LogStep]_vars
\* Sent and Replied events interleave in the log, one request is still
\* pending, and the last call was rejected.
C20_Witness ==
    /\ Len(events) = 5
    /\ events[2].name = "OffchainCallReplied" /\ events[5].name = "OffchainCallReplied"
    /\ SentRequests # {}
    /\ last.err # "ok"

\* ======================================================================
\* Properties of the FIFOBytes32 queue (SpecQueue)
\* ======================================================================
\* The values between head and tail, oldest first.
QueueContents(qu) ==
    [i \in 1 .. (qu.tail - qu.head) |-> Get(qu.data, qu.head + i - 1, ZeroId)]

\* C21: in every state of the queue harness, whatever enqueue, dequeue and
\* resetIfEmpty calls (reverted ones included) led to it, tail >= head,
\* length() is tail - head and is the number of values enqueued and not yet
\* dequeued, and isEmpty() holds exactly when head = tail.
C21_QueueInvariant ==
    /\ harnessQ.tail >= harnessQ.head
    /\ harnessQ.head >= 0
    /\ length(harnessQ) = indices(harnessQ)[2] - indices(harnessQ)[1]
    /\ length(harnessQ) = Len(fifoModel)
    /\ isEmpty(harnessQ) <=> (harnessQ.head = harnessQ.tail)
    /\ isEmpty(harnessQ) <=> (fifoModel = <<>>)
\* Two values are queued behind a head that two dequeues advanced.
C21_Witness ==
    /\ harnessQ.head = 2 /\ harnessQ.tail = 4
    /\ Len(fifoModel) = 2
    /\ \E i \in DOMAIN harnessQ.data : i < harnessQ.head

\* C22: dequeue() and peek() on an empty queue (never used, drained, or
\* reset) fail with QueueEmpty(), and the failed call leaves head, tail and
\* the stored data as they were; on a non-empty queue they do not fail.
C22_EmptyStep ==
    last'.op \in {"dequeue", "peek"} =>
       /\ isEmpty(harnessQ) <=> (last'.err = "QueueEmpty()")
       /\ isEmpty(harnessQ) => (harnessQ' = harnessQ /\ fifoModel' = fifoModel)
C22_EmptyQueueRejected == [][C22_EmptyStep]_vars
\* peek has just failed on a queue that was drained and reset: the indices
\* are (0, 0) and the old slots are still in storage.
C22_Witness ==
    /\ last.op = "peek" /\ last.err = "QueueEmpty()"
    /\ indices(harnessQ) = <<0, 0>>
    /\ Cardinality(DOMAIN harnessQ.data) >= 2

\* C23 as stated: a dequeue() that removes the last element resets the
\* indices, so right after it head = 0 and tail = 0; a dequeue that leaves
\* elements in the queue only advances head.
C23_DequeueAutoResets ==
    [][(last'.op = "dequeue" /\ last'.err = "ok")
          => IF length(harnessQ) = 1
             THEN indices(harnessQ') = <<0, 0>>
             ELSE indices(harnessQ') = <<harnessQ.head + 1, harnessQ.tail>>]_vars
\* dequeue has just removed the only element and the indices are (1, 1).
C23_Witness ==
    /\ last.op = "dequeue" /\ last.err = "ok"
    /\ fifoModel = <<>>
    /\ indices(harnessQ) = <<1, 1>>

\* C24: resetIfEmpty() on an empty queue sets head and tail to 0 and deletes
\* no slot; on a non-empty queue it changes nothing, so the FIFO contents are
\* preserved; and applying it twice gives what applying it once gives.
C24_ResetStep ==
    last'.op = "resetIfEmpty" =>
       /\ last'.err = "ok"
       /\ IF isEmpty(harnessQ)
          THEN indices(harnessQ') = <<0, 0>> /\ harnessQ'.data = harnessQ.data
          ELSE harnessQ' = harnessQ
       /\ QueueContents(harnessQ') = QueueContents(harnessQ)
C24_Idempotent ==
    resetIfEmpty(resetIfEmpty(harnessQ)) = resetIfEmpty(harnessQ)
C24_ResetOnlyWhenEmpty == []C24_Idempotent /\ [][C24_ResetStep]_vars
\* A drained queue was reset from (2, 2) to (0, 0), the next value was stored
\* at index 0, and resetIfEmpty has just been called on the non-empty queue.
C24_Witness ==
    /\ indices(harnessQ) = <<0, 1>>
    /\ Cardinality(DOMAIN harnessQ.data) = 2
    /\ last.op = "resetIfEmpty"

\* C25: the queue is a FIFO sequence: the values between head and tail are
\* the values enqueued and not yet dequeued, in the order of their enqueue;
\* dequeue returns the oldest of them and removes it, peek returns the same
\* value and removes nothing, also after a reset left stale slots in storage.
C25_SameContents == QueueContents(harnessQ) = fifoModel
C25_OldestFirst ==
    /\ (last'.op = "dequeue" /\ last'.err = "ok")
          => /\ fifoModel # <<>>
             /\ last'.id = Head(fifoModel)
             /\ QueueContents(harnessQ') = Tail(fifoModel)
    /\ (last'.op = "peek" /\ last'.err = "ok")
          => /\ fifoModel # <<>>
             /\ last'.id = Head(fifoModel)
             /\ harnessQ' = harnessQ
    /\ (last'.op = "enqueue")
          => QueueContents(harnessQ') = Append(fifoModel, last'.id)
C25_FifoRefinement == []C25_SameContents /\ [][C25_OldestFirst]_vars
\* After a reset, b32(2) was stored over a slot and dequeued again while a
\* stale b32(1) sits in a slot past the tail.
C25_Witness ==
    /\ last.op = "dequeue" /\ last.err = "ok" /\ last.id = b32(2)
    /\ indices(harnessQ) = <<1, 1>>
    /\ \E i \in DOMAIN harnessQ.data : i >= harnessQ.tail /\ harnessQ.data[i] = b32(1)

\* C26: nextRequest() answers in every state, never with the queue's own
\* QueueEmpty failure: bytes32(0) when no request is Sent (initially and after
\* every admitted request was completed), otherwise the id of the oldest Sent
\* request. Its answer changes only when that request is completed, or when
\* the first request is admitted into an empty queue; further admissions
\* leave it alone.
C26_NextRequestValue ==
    /\ nextRequest # QueueEmpty
    /\ (SentRequests = {}) <=> (nextRequest = ZeroId)
    /\ (SentRequests # {}) => (nextRequest = OldestSent)
C26_NextRequestStep ==
    /\ (nextRequest' # nextRequest)
          => \/ /\ last'.op = "reply" /\ last'.err = "ok"
                /\ last'.id = nextRequest
             \/ /\ last'.op = "send" /\ last'.err = "ok"
                /\ nextRequest = ZeroId
                /\ nextRequest' = last'.id
    /\ (last'.op = "send" /\ nextRequest # ZeroId) => (nextRequest' = nextRequest)
    /\ (last'.op = "reply" /\ last'.err = "ok") => (last'.id = nextRequest)
C26_NextRequest == []C26_NextRequestValue /\ [][C26_NextRequestStep]_vars
\* Every admitted request has been completed: the queue's head has advanced
\* to its tail and nextRequest() is bytes32(0) again.
C26_Witness ==
    /\ _nonce = MaxNonce
    /\ globalQueue.head = MaxNonce
    /\ SentRequests = {}
    /\ nextRequest = ZeroId
    /\ last.op = "reply" /\ last.err = "ok"

\* C27: every OffchainCallSent in the log carries the request's id, nonce,
\* requester, admission block, call and both locations, each equal to the
\* field of the stored request record.
C27_SentEventFields ==
    {"requestId", "nonce", "requester", "block", "call", "bytecodeLocation",
     "currentStateLocation"}
C27_SentEventCarriesRecord ==
    \A i \in 1 .. Len(events) :
       events[i].name = "OffchainCallSent" =>
          /\ C27_SentEventFields \subseteq DOMAIN events[i]
          /\ events[i].nonce = getRequest(events[i].requestId).nonce
          /\ events[i].requester = getRequest(events[i].requestId).requester
          /\ events[i].block = getRequest(events[i].requestId).blockNumber
          /\ events[i].call = getRequest(events[i].requestId).call
          /\ events[i].bytecodeLocation = getRequest(events[i].requestId).bytecodeLocation
          /\ events[i].currentStateLocation
                = getRequest(events[i].requestId).currentStateLocation
\* A successful send whose event agrees with the record in every field it
\* has, and has no nonce field.
C27_Witness ==
    /\ last.op = "send" /\ last.err = "ok"
    /\ Len(events) >= 1
    /\ LET e == events[Len(events)] IN
          /\ e.name = "OffchainCallSent"
          /\ e.requestId = last.id
          /\ e.requester = getRequest(last.id).requester
          /\ e.block = getRequest(last.id).blockNumber
          /\ e.call = getRequest(last.id).call
          /\ e.bytecodeLocation = getRequest(last.id).bytecodeLocation
          /\ e.currentStateLocation = getRequest(last.id).currentStateLocation
          /\ "nonce" \notin DOMAIN e
          /\ getRequest(last.id).nonce = _nonce

\* C28: onOffchainCallResponse called by anyone but coordinatorAddress fails
\* with UnauthorizedCaller and leaves currentStateLocation, the stored
\* responses and the consumer's event log as they were; a call by the
\* coordinator is the only one that changes them.
C28_HandlerStep ==
    /\ (last'.op = "onOffchainCallResponse"
          /\ last'.caller # exampleConsumer.coordinatorAddress)
          => /\ last'.err = "UnauthorizedCaller"
             /\ exampleConsumer'.currentStateLocation = exampleConsumer.currentStateLocation
             /\ exampleConsumer'.responses = exampleConsumer.responses
             /\ exampleConsumer'.log = exampleConsumer.log
    /\ (exampleConsumer' # exampleConsumer)
          => /\ last'.op = "onOffchainCallResponse" /\ last'.err = "ok"
             /\ last'.caller = exampleConsumer.coordinatorAddress
    /\ exampleConsumer'.coordinatorAddress = exampleConsumer.coordinatorAddress
C28_OnlyCoordinatorCallsHandler == [][C28_HandlerStep]_vars
\* An intruder's call is rejected after the coordinator delivered a response.
C28_Witness ==
    /\ last.op = "onOffchainCallResponse" /\ last.err = "UnauthorizedCaller"
    /\ last.caller = Processor
    /\ Len(exampleConsumer.log) = 2
    /\ exampleConsumer.currentStateLocation = "n2"
    /\ Get(exampleConsumer.responses, last.id, [received |-> FALSE]).received

\* C29: right after construction the owner is whitelisted, so its
\* sendOffchainCall and replyOffchainCall pass the whitelist check without a
\* prior addToWhitelist.
C29_OwnerWhitelistedAtConstruction ==
    (last.op = "constructor")
       => /\ isWhitelisted(Owner)
          /\ replyChecksWhitelist(Owner, FakeId) # "Caller not whitelisted"
\* The owner's first call, with nothing whitelisted yet, is turned away.
C29_Witness ==
    /\ last.op = "send" /\ last.caller = Owner
    /\ last.err = "Caller not whitelisted"
    /\ _whitelist = {}
    /\ _nonce = 0 /\ requests = <<>>

\* C30: a whitelist call succeeds exactly when the owner adds a non-zero
\* address that is not whitelisted, or removes one that is; it then changes
\* the whitelist by that address alone. Every other whitelist call reverts
\* (non-owner, zero address, already whitelisted, not whitelisted) and every
\* other operation leaves the whitelist as it was, so isWhitelisted(a) holds
\* exactly when the last successful whitelist call on a was an add.
C30_WhitelistStep ==
    /\ \A sender \in WhitelistCallers, account \in WhitelistAccounts :
          addToWhitelist(sender, account) =>
             /\ (last'.err = "ok") <=>
                   (sender = Owner /\ account # ZeroAddress /\ ~isWhitelisted(account))
             /\ (last'.err = "ok") =>
                   /\ _whitelist' = _whitelist \cup {account}
                   /\ isWhitelisted(account)'
             /\ (last'.err # "ok") => (_whitelist' = _whitelist)
             /\ (sender # Owner) => (last'.err = "OwnableUnauthorizedAccount")
    /\ \A sender \in WhitelistCallers, account \in WhitelistAccounts :
          removeFromWhitelist(sender, account) =>
             /\ (last'.err = "ok") <=> (sender = Owner /\ isWhitelisted(account))
             /\ (last'.err = "ok") =>
                   /\ _whitelist' = _whitelist \ {account}
                   /\ ~isWhitelisted(account)'
             /\ (last'.err # "ok") => (_whitelist' = _whitelist)
             /\ (sender # Owner) => (last'.err = "OwnableUnauthorizedAccount")
    /\ (_whitelist' # _whitelist)
          => /\ last'.op \in {"addToWhitelist", "removeFromWhitelist"}
             /\ last'.err = "ok" /\ last'.caller = Owner
    /\ (last'.op \in {"addToWhitelist", "removeFromWhitelist"} /\ last'.err = "ok")
          => (_whitelist' # _whitelist)
C31_ViewOfUnknownAndCompleted ==
    /\ \A id \in NameableIds \ DOMAIN requests :
          canProcessRequest(id).reverted = "Request does not exist"
    /\ \A id \in DOMAIN requests :
          /\ canProcessRequest(id).reverted = ""
          /\ requests[id].state = "Completed"
                => /\ canProcessRequest(id).canProcess
                   /\ canProcessRequest(id).blockingRequestId = ZeroId
\* A Completed request whose bytecode location and state location are shared
\* by two requests that are still Sent, the later of them blocked.
C31_Witness ==
    \E a, b, c \in DOMAIN requests :
       /\ requests[a].state = "Completed"
       /\ requests[b].state = "Sent" /\ requests[c].state = "Sent"
       /\ requests[b].nonce < requests[c].nonce
       /\ requests[b].bytecodeLocation = requests[a].bytecodeLocation
       /\ requests[c].currentStateLocation = requests[a].currentStateLocation
       /\ requests[c].currentStateLocation = requests[b].currentStateLocation
       /\ ~canProcessRequest(c).canProcess
       /\ canProcessRequest(a).canProcess

\* The response ExampleConsumer returns for an id it has stored nothing for.
C32_Unset == [newStateLocation |-> "", returnData |-> "", received |-> FALSE]
\* The ids the consumer has accepted a response for, from its event log.
C32_DeliveredIds ==
    {exampleConsumer.log[i].requestId : i \in 1 .. Len(exampleConsumer.log)}
\* C32: after every successful callback currentStateLocation is the
\* newStateLocation delivered last, the response stored for the delivered id
\* has received = true with the delivered newStateLocation and returnData,
\* and ids that no callback delivered have no stored response.
C32_ConsumerState ==
    /\ exampleConsumer.log # <<>>
          => exampleConsumer.currentStateLocation
                = exampleConsumer.log[Len(exampleConsumer.log)].newStateLocation
    /\ exampleConsumer.log = <<>>
          => exampleConsumer.currentStateLocation = ConsumerDeployed.currentStateLocation
    /\ \A n \in 1 .. 2 :
          LET id == RequestIdOf(blockNumber, ConsumerA, n) IN
          IF id \in C32_DeliveredIds
          THEN Get(exampleConsumer.responses, id, C32_Unset).received
          ELSE Get(exampleConsumer.responses, id, C32_Unset) = C32_Unset
C32_CallbackStep ==
    \A n \in 1 .. 2, res \in ConsumerResults :
       LET id == RequestIdOf(blockNumber, ConsumerA, n) IN
       (/\ last'.err = "ok"
        /\ onOffchainCallResponse(exampleConsumer.coordinatorAddress, id, res[1], res[2]))
          => /\ exampleConsumer'.currentStateLocation = res[1]
             /\ Get(exampleConsumer'.responses, id, C32_Unset)
                   = [newStateLocation |-> res[1], returnData |-> res[2], received |-> TRUE]
             /\ \A other \in NameableIds \cup C32_DeliveredIds :
                   other # id =>
                      Get(exampleConsumer'.responses, other, C32_Unset)
                         = Get(exampleConsumer.responses, other, C32_Unset)
C32_ConsumerFollowsCallbacks == []C32_ConsumerState /\ [][C32_CallbackStep]_vars
\* Two callbacks delivered different results for the first id; the second id
\* has had none.
C32_Witness ==
    /\ last.op = "onOffchainCallResponse" /\ last.err = "ok"
    /\ last.id = RequestIdOf(blockNumber, ConsumerA, 1)
    /\ Len(exampleConsumer.log) = 4
    /\ exampleConsumer.log[2].newStateLocation = "n1"
    /\ exampleConsumer.currentStateLocation = "n2"
    /\ Get(exampleConsumer.responses, last.id, C32_Unset).returnData = "r2"
    /\ Get(exampleConsumer.responses, RequestIdOf(blockNumber, ConsumerA, 2), C32_Unset)
          = C32_Unset

\* C33: whenever a connect() resolves, the pool that getPool() returns at
\* that moment has passed the smoke test, whatever connect() and disconnect()
\* calls came before or are still in flight.
C33_ResolveStep ==
    (last'.op = "connect" /\ last'.err = "resolved")
       => (getPool'.thrown = "" => getPool'.pool \in pgManager'.validated)
C33_ResolvedMeansValidated == [][C33_ResolveStep]_vars
\* The first connect() rejected because its smoke test failed; the second
\* resolved at once; nothing was disconnected, and the pool getPool() returns
\* has never answered a query.
C33_Witness ==
    /\ pgManager.calls["connect1"] = [pc |-> "rejected", pool |-> 1]
    /\ pgManager.calls["connect2"] = [pc |-> "resolved", pool |-> 1]
    /\ getPool = [thrown |-> "", pool |-> 1]
    /\ pgManager.validated = {}
    /\ pgManager.ended = {}

\* C34: in every state of the FIFO coordinator the values between head and
\* tail of globalQueue are exactly the ids of the Sent requests, each once,
\* in increasing nonce order; so length is the number of Sent requests and
\* the queue is empty exactly when no request is Sent.
C34_QueueHoldsSentRequests ==
    LET live == QueueContents(globalQueue) IN
    /\ {live[i] : i \in 1 .. Len(live)} = SentRequests
    /\ Len(live) = Cardinality(SentRequests)
    /\ \A i, j \in 1 .. Len(live) :
          i < j => requests[live[i]].nonce < requests[live[j]].nonce
    /\ length(globalQueue) = Cardinality(SentRequests)
    /\ isEmpty(globalQueue) <=> (SentRequests = {})
\* The first request was completed and left the queue; the two admitted
\* after it are the queue's contents.
C34_Witness ==
    /\ indices(globalQueue) = <<1, 3>>
    /\ Cardinality(SentRequests) = 2
    /\ Cardinality(DOMAIN requests) = 3
    /\ Cardinality(DOMAIN globalQueue.data) = 3

CompletedRequests == {id \in DOMAIN requests : requests[id].state = "Completed"}
\* C35: the FIFO coordinator never resets its queue: tail is the number of
\* admitted requests (the nonce), head the number of Completed requests, and
\* no step lowers either, the steps that empty the queue included.
C35_IndicesCount ==
    /\ globalQueue.tail = _nonce
    /\ globalQueue.tail = Cardinality(DOMAIN requests)
    /\ globalQueue.head = Cardinality(CompletedRequests)
C35_IndicesGrow ==
    /\ globalQueue'.head >= globalQueue.head
    /\ globalQueue'.tail >= globalQueue.tail
C36_AllMinPendingZero ==
    /\ \A k \in DOMAIN _minPendingNonceBytecode : _minPendingNonceBytecode[k] = 0
    /\ \A k \in DOMAIN _minPendingNonceState : _minPendingNonceState[k] = 0
\* C36: the partitioned coordinator cannot deadlock. While a request is
\* Sent, the Sent request with the lowest nonce passes both ordering checks,
\* so replyOffchainCall on it by a whitelisted caller succeeds. Hence, with
\* processors that keep replying to completable requests and a caller that is
\* whitelisted again and again, a state in which every admitted request is
\* Completed and every minPending entry is 0 is reached again and again
\* (admissions stop at the latest when the nonce bound is reached).
C36_LowestSentCompletable ==
    SentRequests # {} =>
       /\ canProcessRequest(OldestSent).canProcess
       /\ \A sender \in _whitelist : replyChecksPartitioned(sender, OldestSent) = "ok"
C36_Drained == SentRequests = {} /\ C36_AllMinPendingZero
C36_DeadlockFree ==
    /\ []C36_LowestSentCompletable
    /\ ([]<>(User \in _whitelist)) => []<>C36_Drained
\* Three requests on one state location, admitted while the first was still
\* Sent, have all been completed and the indexes are back at 0.
C36_Witness ==
    /\ _nonce = MaxNonce
    /\ C36_Drained
    /\ Len(events) = 2 * MaxNonce
    /\ events[2].name = "OffchainCallSent" /\ events[3].name = "OffchainCallSent"
    /\ \E k \in StateLocations : \A id \in DOMAIN requests :
          requests[id].currentStateLocation = k

\* C37: head-of-line blocking. A replyOffchainCall whose handler fails
\* reverts whole: the request stays Sent at the front of the queue. A request
\* becomes Completed only in a successful reply on the front request, whose
\* handler was invoked and returned; so while the front request's handler
\* fails on every invocation, the front stays where it is and no request
\* admitted after it is ever Completed.
C37_HandlerFailureStep ==
    /\ (last'.op = "reply" /\ last'.err = "handler reverted")
          => /\ UNCHANGED storage
             /\ last'.id = nextRequest'
             /\ Get(requests', last'.id, ZeroRequest).state = "Sent"
    /\ \A id \in DOMAIN requests' :
          (requests'[id].state = "Completed" /\ getRequestState(id) # "Completed")
             => /\ id = nextRequest
                /\ last' = [op |-> "reply", caller |-> last'.caller, id |-> id, err |-> "ok"]
                /\ Len(delivered') = Len(delivered) + 1
                /\ delivered'[Len(delivered')].to = requests[id].requester
                /\ delivered'[Len(delivered')].requestId = id
    /\ (nextRequest # ZeroId /\ ~(last'.op = "reply" /\ last'.err = "ok"))
          => /\ nextRequest' = nextRequest
             /\ \A id \in DOMAIN requests :
                   getRequestState(id) = "Sent" => requests'[id].state = "Sent"
C37_HeadOfLineBlocking == [][C37_HandlerFailureStep]_vars
\* ConsumerB's request is at the front and its handler has just failed; two
\* requests admitted after it wait behind it and nothing has been completed.
C37_Witness ==
    /\ last.op = "reply" /\ last.err = "handler reverted"
    /\ last.id = nextRequest
    /\ getRequest(last.id).requester = ConsumerB
    /\ getRequest(last.id).nonce = 1
    /\ Cardinality(SentRequests) = 3
    /\ CompletedRequests = {}

\* The fields of a request record that are written at admission.
C38_Admitted(rec) ==
    [requester |-> rec.requester, nonce |-> rec.nonce, blockNumber |-> rec.blockNumber,
     call |-> rec.call, bytecodeLocation |-> rec.bytecodeLocation,
     currentStateLocation |-> rec.currentStateLocation]
\* C38: once a request is admitted its record is never deleted and its
\* requester, nonce, blockNumber, call, bytecodeLocation and
\* currentStateLocation never change, whatever is sent or replied later; a
\* successful replyOffchainCall(id) changes no record but that of id.
C38_RecordStep ==
    /\ \A id \in DOMAIN requests :
          /\ id \in DOMAIN requests'
          /\ requests[id].state # "None"
          /\ requests'[id].state # "None"
          /\ C38_Admitted(requests'[id]) = C38_Admitted(requests[id])
    /\ (last'.op = "reply" /\ last'.err = "ok")
          => /\ DOMAIN requests' = DOMAIN requests
             /\ \A other \in DOMAIN requests :
                   other # last'.id => requests'[other] = requests[other]
    /\ (last'.op = "send" /\ last'.err = "ok")
          => /\ last'.id \notin DOMAIN requests
             /\ \A other \in DOMAIN requests : requests'[other] = requests[other]
C38_RecordsArchival == [][C38_RecordStep]_vars
\* The second of three requests has just been completed: the first is
\* Completed, the third Sent, and its own admission data is still there.
C38_Witness ==
    /\ last.op = "reply" /\ last.err = "ok"
    /\ Cardinality(DOMAIN requests) = 3
    /\ getRequest(last.id).nonce = 2
    /\ getRequest(last.id).call \in Calls
    /\ getRequest(last.id).requester \in ConsumerContracts
    /\ Cardinality(SentRequests) = 1

\* C39: one whitelist gates both submission and completion. A whitelisted
\* address succeeds with sendOffchainCall and with replyOffchainCall on the
\* request that passes the state and ordering checks, its own requests
\* included; an address that is not (or no longer) whitelisted is turned
\* away from both with "Caller not whitelisted", while the requests it
\* admitted earlier stay completable by the whitelisted addresses.
C39_CallerGate ==
    \A a \in WhitelistCallers :
       /\ a \in _whitelist =>
             \A id \in SentRequests :
                id = nextRequest => replyChecksWhitelist(a, id) = "ok"
       /\ a \notin _whitelist =>
             \A id \in NameableIds : replyChecksWhitelist(a, id) = "Caller not whitelisted"
C39_CallStep ==
    /\ \A sender \in WhitelistCallers, call \in Calls, b \in BytecodeLocations,
          s \in FifoStateLocations :
          sendOffchainCallWhitelist(sender, call, b, s) =>
             /\ (last'.err = "ok") <=> (sender \in _whitelist)
             /\ (sender \notin _whitelist) => (last'.err = "Caller not whitelisted")
    /\ \A sender \in WhitelistCallers, id \in ReplyIds, res \in Results :
          replyOffchainCallWhitelist(sender, id, res[1], res[2]) =>
             /\ (last'.err = "ok") <=>
                   (sender \in _whitelist /\ isPending(id) /\ id = nextRequest)
             /\ (sender \notin _whitelist) => (last'.err = "Caller not whitelisted")
    /\ (last'.op \in {"addToWhitelist", "removeFromWhitelist"})
          => (requests' = requests /\ globalQueue' = globalQueue)
C39_SingleWhitelist == []C39_CallerGate /\ [][C39_CallStep]_vars
\* The user was removed from the whitelist after admitting two requests: the
\* owner has just completed the first of them; a request admitted by the
\* owner itself has been completed as well.
C39_Witness ==
    /\ last.op = "reply" /\ last.err = "ok" /\ last.caller = Owner
    /\ getRequest(last.id).requester = User
    /\ _whitelist = {Owner}
    /\ \E own \in CompletedRequests : requests[own].requester = Owner
    /\ \E waiting \in SentRequests : requests[waiting].requester = User

\* The last call was a reply whose handler ran the given script.
C40_Ran(l, script) == l.op = "reply" /\ "script" \in DOMAIN l /\ l.script = script
\* The ids of the OffchainCallReplied events, oldest first.
C40_Replied == SelectSeq(events, LAMBDA e : e.name = "OffchainCallReplied")
\* C40: re-entrancy of the FIFO coordinator. When the requester's handler
\* calls back during replyOffchainCall(id): a nested reply on id fails (the
\* request is already Completed); no request is completed twice or ahead of
\* an earlier Sent request (completions follow the nonces 1, 2, ...); a
\* nested admission gets the next, larger nonce and a new id; and when the
\* outer call has returned the queue holds exactly the Sent requests in
\* admission order.
C40_StateAfterCalls ==
    /\ \A i \in 1 .. Len(C40_Replied) : requests[C40_Replied[i].requestId].nonce = i
    /\ Len(C40_Replied) = Cardinality(CompletedRequests)
    /\ \A i, j \in 1 .. Len(delivered) :
          i # j => delivered[i].requestId # delivered[j].requestId
    /\ LET live == QueueContents(globalQueue) IN
          /\ {live[i] : i \in 1 .. Len(live)} = SentRequests
          /\ \A i \in 1 .. Len(live) :
                requests[live[i]].nonce = Cardinality(CompletedRequests) + i
    /\ \A id \in DOMAIN requests : requests[id].nonce \in 1 .. _nonce
    /\ \A a, b \in DOMAIN requests : a # b => requests[a].nonce # requests[b].nonce
C40_ReentrantStep ==
    /\ (C40_Ran(last', "replySelf") \/ C40_Ran(last', "replySelfCaught"))
          => last'.nested \in {"Invalid request state", "AccessControlUnauthorizedAccount"}
    /\ C40_Ran(last', "replySelf")
          => (last'.err = "handler reverted" /\ UNCHANGED storage)
    /\ (C40_Ran(last', "replySelfCaught") /\ getRequestState(last'.id) = "Sent"
          /\ last'.err = "ok")
          => /\ Len(events') = Len(events) + 1
             /\ Len(delivered') = Len(delivered) + 1
             /\ globalQueue'.head = globalQueue.head + 1
    /\ (C40_Ran(last', "send") /\ last'.err = "ok")
          => /\ last'.nestedId \notin DOMAIN requests
             /\ _nonce' = _nonce + 1
             /\ requests'[last'.nestedId].nonce = _nonce + 1
             /\ requests'[last'.nestedId].state = "Sent"
             /\ requests'[last'.nestedId].requester = requests[last'.id].requester
             /\ \A id \in DOMAIN requests :
                   requests[id].nonce < requests'[last'.nestedId].nonce
             /\ requests'[last'.id].state = "Completed"
    /\ (C40_Ran(last', "replyNext") /\ last'.err = "ok")
          => /\ requests[last'.nestedId].nonce = requests[last'.id].nonce + 1
             /\ requests'[last'.id].state = "Completed"
             /\ requests'[last'.nestedId].state = "Completed"
             /\ globalQueue'.head = globalQueue.head + 2
C40_ReentrancySafe == []C40_StateAfterCalls /\ [][C40_ReentrantStep]_vars
\* The handler of a consumer that holds the processor role tried to complete
\* its own request again from inside the callback, inside try/catch: the
\* nested call failed on the request state and the outer call committed, with
\* another request still waiting.
C40_Witness ==
    /\ C40_Ran(last, "replySelfCaught")
    /\ last.err = "ok"
    /\ last.nested = "Invalid request state"
    /\ _roles[PROCESSOR_ROLE] = {Processor, ConsumerB}
    /\ getRequestState(last.id) = "Completed"
    /\ Cardinality(SentRequests) = 1

====
